---- MODULE Spec2Model ----
(***************************************************************************)
(* KiraFlux-GFX: the paged monochrome frame buffer (kf::gfx::FrameView)    *)
(* and the drawing layer on top of it (kf::gfx::Canvas).                   *)
(*                                                                         *)
(* The display buffer is Stride bytes per page-row and Pages page-rows of  *)
(* 8 pixel rows each.  A FrameView is a record of the six fields of the    *)
(* C++ struct; its buffer pointer is either "nullptr" or "buf", the one    *)
(* display buffer of the model.                                            *)
(***************************************************************************)
EXTENDS Integers, Sequences, FiniteSets, TLC

VARIABLES
    buf,    \* the display buffer: [0 .. BufLen-1 -> 0 .. 255]
    prev,   \* the display buffer as it was before the last operation
    view,   \* the FrameView the operations are applied to
    root,   \* the view the current chain of checked sub() calls started from
    acc,    \* the sum of the sub-offsets of that chain, <<x, y>>
    depth,  \* the number of checked sub() calls of that chain
    res,    \* the Result<FrameView, Error> of the last create() / sub()
    call,   \* the last operation and its arguments
    ret,    \* the value returned by the last getPixel()
    fault,  \* the memory accesses of the last operation: "none", "null", "oob"
    hist,   \* the pixel operations applied so far, oldest first
    cursor_x, cursor_y,  \* Canvas::cursor_x, cursor_y
    auto_next_line,      \* Canvas::auto_next_line
    current_font,        \* the font Canvas::current_font points to
    last,   \* for each pixel of the display, the value that the most recent
            \* SetPixelVia or FillVia call covering it wrote (at first, the
            \* buffer's)
    nops    \* the number of operations applied so far

vars == <<buf, prev, view, root, acc, depth, res, call, ret, fault, hist, nops,
          cursor_x, cursor_y, auto_next_line, current_font, last>>

canvasVars == <<cursor_x, cursor_y, auto_next_line, current_font>>

---------------------------------------------------------------------------
(* Bounds of the model *)

\* bytes per page-row of the display (its width in pixels)
Stride == 3
\* page-rows of the display (its height is PageRows * Pages)
Pages == 3
\* largest width / height handed to create(), sub() and the constructors
MaxDim == 2
\* largest offset handed to create(), sub() and the constructors
MaxOff == 1
\* longest chain of checked sub() calls
MaxDepth == 3
\* longest sequence of operations of one behaviour
MaxOps == 4
\* largest radius of a circle
MaxRadius == 3
\* longest string given to text()
MaxText == 2
\* the cursor is set to columns from -MaxCursor on
MaxCursor == 9
\* largest number of parts of a split, and largest weight of a part
MaxSplit == 3
MaxWeight == 3
\* iterations of the loop of line() that are followed
MaxLineSteps == 12

(* Program constants *)

\* rows per page: the 3 of ">> 3" and the 7 of "& 0x07"
PageRows == 8
\* bits of the Pixel coordinate type
PixelBits == 16

BufLen == Stride * Pages
DisplayHeight == PageRows * Pages

---------------------------------------------------------------------------
(* Machine arithmetic *)

\* static_cast<Pixel>(n): wrap to a signed PixelBits-bit integer
ToPixel(n) ==
    LET m == 2 ^ PixelBits
        r == n % m
    IN  IF r >= m \div 2 THEN r - m ELSE r

\* static_cast<u8>(n): the low 8 bits
ToU8(n) == n % 256

RECURSIVE BitAnd(_, _)
BitAnd(a, b) ==
    IF a = 0 \/ b = 0 THEN 0
    ELSE (a % 2) * (b % 2) + 2 * BitAnd(a \div 2, b \div 2)

RECURSIVE BitOr(_, _)
BitOr(a, b) ==
    IF a = 0 THEN b
    ELSE IF b = 0 THEN a
    ELSE (IF a % 2 = 1 \/ b % 2 = 1 THEN 1 ELSE 0) + 2 * BitOr(a \div 2, b \div 2)

RECURSIVE BitXor(_, _)
BitXor(a, b) ==
    IF a = 0 THEN b
    ELSE IF b = 0 THEN a
    ELSE ((a + b) % 2) + 2 * BitXor(a \div 2, b \div 2)

\* n >> k on a signed integer (arithmetic shift) and n << k
ShiftRight(n, k) == n \div (2 ^ k)
ShiftLeft(n, k) == n * (2 ^ k)

\* bit k of byte b
Bit(b, k) == (b \div (2 ^ k)) % 2

\* abs() of <cmath> on int
Abs(a) == IF a < 0 THEN -a ELSE a

\* the least and the largest value of the coordinate type
MinPixel == -(2 ^ (PixelBits - 1))
MaxPixel == 2 ^ (PixelBits - 1) - 1

\* integer division of C++, which truncates toward zero
Quot(a, b) == IF a >= 0 THEN a \div b ELSE -((-a) \div b)

Min(a, b) == IF a < b THEN a ELSE b
Max(a, b) == IF a > b THEN a ELSE b

---------------------------------------------------------------------------
(* FrameView: construction *)

Ptrs == {"nullptr", "buf"}

\* FrameView(buffer, stride, width, height, offset_x, offset_y), unchecked
FrameViewCtor(buffer, stride, width, height, offset_x, offset_y) ==
    [buffer |-> buffer, stride |-> stride,
     offset_x |-> offset_x, offset_y |-> offset_y,
     width |-> width, height |-> height]

\* FrameView()
FrameViewDefault == FrameViewCtor("nullptr", 0, 0, 0, 0, 0)

\* Result<FrameView, Error>
Ok(v) == [ok |-> TRUE, error |-> "none", value |-> v]
Err(e) == [ok |-> FALSE, error |-> e, value |-> FrameViewDefault]

\* create() of the earlier revision kf::FrameView, which has no buffer check
create_NoBufferCheck(buffer, stride, width, height, offset_x, offset_y) ==
    IF width < 1 \/ height < 1 THEN Err("SizeTooSmall")
    ELSE Ok(FrameViewCtor(buffer, stride, width, height, offset_x, offset_y))

\* create() rejecting a size only when both width and height are too small
create_SizeAnd(buffer, stride, width, height, offset_x, offset_y) ==
    IF buffer = "nullptr" THEN Err("BufferNotInit")
    ELSE IF width < 1 /\ height < 1 THEN Err("SizeTooSmall")
    ELSE Ok(FrameViewCtor(buffer, stride, width, height, offset_x, offset_y))

\* FrameView::create
create(buffer, stride, width, height, offset_x, offset_y) ==
    IF buffer = "nullptr" THEN Err("BufferNotInit")
    ELSE IF width < 1 \/ height < 1 THEN Err("SizeTooSmall")
    ELSE Ok(FrameViewCtor(buffer, stride, width, height, offset_x, offset_y))

\* sub() testing the size before the offset
sub_SizeFirst(v, sub_width, sub_height, sub_offset_x, sub_offset_y) ==
    IF sub_width > v.width - sub_offset_x \/ sub_height > v.height - sub_offset_y
    THEN Err("SizeTooLarge")
    ELSE IF sub_offset_x >= v.width \/ sub_offset_y >= v.height
    THEN Err("OffsetOutOfBounds")
    ELSE create(v.buffer, v.stride, sub_width, sub_height,
                ToPixel(v.offset_x + sub_offset_x), ToPixel(v.offset_y + sub_offset_y))

\* sub() taking the sub-offset as the absolute offset of the child
sub_RelativeOffset(v, sub_width, sub_height, sub_offset_x, sub_offset_y) ==
    IF sub_offset_x >= v.width \/ sub_offset_y >= v.height
    THEN Err("OffsetOutOfBounds")
    ELSE IF sub_width > v.width - sub_offset_x \/ sub_height > v.height - sub_offset_y
    THEN Err("SizeTooLarge")
    ELSE create(v.buffer, v.stride, sub_width, sub_height, sub_offset_x, sub_offset_y)

\* FrameView::sub
sub(v, sub_width, sub_height, sub_offset_x, sub_offset_y) ==
    IF sub_offset_x >= v.width \/ sub_offset_y >= v.height
    THEN Err("OffsetOutOfBounds")
    ELSE IF sub_width > v.width - sub_offset_x \/ sub_height > v.height - sub_offset_y
    THEN Err("SizeTooLarge")
    ELSE LET new_x == ToPixel(v.offset_x + sub_offset_x)
             new_y == ToPixel(v.offset_y + sub_offset_y)
         IN  create(v.buffer, v.stride, sub_width, sub_height, new_x, new_y)

\* FrameView::subUnchecked
subUnchecked(v, sub_width, sub_height, sub_offset_x, sub_offset_y) ==
    FrameViewCtor(v.buffer, v.stride, sub_width, sub_height,
                  ToPixel(v.offset_x + sub_offset_x),
                  ToPixel(v.offset_y + sub_offset_y))

\* FrameView::isValid
isValid(v) ==
    v.buffer # "nullptr" \/ v.stride > 0 \/ v.width > 0 \/ v.height > 0

\* FrameView::inside
inside(v, x, y) == x >= 0 /\ x < v.width /\ y >= 0 /\ y < v.height

---------------------------------------------------------------------------
(* FrameView: addressing *)

toAbsoluteX(v, x) == ToPixel(v.offset_x + x)
toAbsoluteY(v, y) == ToPixel(v.offset_y + y)
getPage(v, y) == ToPixel(ShiftRight(toAbsoluteY(v, y), 3))
getBitMask(v, y) == ToU8(ShiftLeft(1, toAbsoluteY(v, y) % PageRows))
getByteIndex(v, x, y) == getPage(v, y) * v.stride + toAbsoluteX(v, x)

---------------------------------------------------------------------------
(* FrameView: buffer accesses.  A memory state m is the display buffer and  *)
(* the worst access made so far: a write through a null buffer pointer or   *)
(* at an index outside the buffer leaves the display bytes as they are and  *)
(* is recorded in m.fault.  m.log is the sequence of the setPixel() calls   *)
(* made so far, whether or not they fell inside the view.                   *)

Mem(b) == [buf |-> b, fault |-> "none", log |-> <<>>]

\* the access of byte `index` through view v
AccessFault(v, index) ==
    IF v.buffer = "nullptr" THEN "null"
    ELSE IF index < 0 \/ index >= BufLen THEN "oob"
    ELSE "none"

\* writeData() clearing with "&= data"
writeData_ClearNoInvert(v, m, abs_x, page, data, on) ==
    LET index == page * v.stride + abs_x
        f == AccessFault(v, index)
    IN  IF f # "none" THEN [m EXCEPT !.fault = f]
        ELSE IF on
        THEN [m EXCEPT !.buf[index] = BitOr(@, ToU8(data))]
        ELSE [m EXCEPT !.buf[index] = BitAnd(@, ToU8(data))]

\* writeData() setting with "= data"
writeData_Assign(v, m, abs_x, page, data, on) ==
    LET index == page * v.stride + abs_x
        f == AccessFault(v, index)
    IN  IF f # "none" THEN [m EXCEPT !.fault = f]
        ELSE IF on
        THEN [m EXCEPT !.buf[index] = ToU8(data)]
        ELSE [m EXCEPT !.buf[index] = BitAnd(@, 255 - ToU8(data))]

\* FrameView::writeData
writeData(v, m, abs_x, page, data, on) ==
    LET index == page * v.stride + abs_x
        f == AccessFault(v, index)
    IN  IF f # "none" THEN [m EXCEPT !.fault = f]
        ELSE IF on
        THEN [m EXCEPT !.buf[index] = BitOr(@, ToU8(data))]
        ELSE [m EXCEPT !.buf[index] = BitAnd(@, 255 - ToU8(data))]

\* FrameView::writePixel
writePixel(v, m, x, y, on) ==
    LET abs_x == toAbsoluteX(v, x)
        page == getPage(v, y)
        mask == getBitMask(v, y)
    IN  writeData(v, m, abs_x, page, mask, on)

\* FrameView::setPixel
setPixel(v, m, x, y, on) ==
    LET called == [m EXCEPT !.log = Append(@, [x |-> x, y |-> y, on |-> on])]
    IN  IF isValid(v) /\ inside(v, x, y) THEN writePixel(v, called, x, y, on) ELSE called

\* FrameView::getPixel: the access it makes
getPixelFault(v, x, y) ==
    IF isValid(v) /\ inside(v, x, y)
    THEN AccessFault(v, getByteIndex(v, x, y))
    ELSE "none"

\* FrameView::getPixel: the values it can return (a read through a null
\* pointer or outside the buffer yields an arbitrary byte)
getPixel(v, b, x, y) ==
    IF isValid(v) /\ inside(v, x, y)
    THEN IF getPixelFault(v, x, y) # "none" THEN BOOLEAN
         ELSE {BitAnd(b[getByteIndex(v, x, y)], getBitMask(v, y)) # 0}
    ELSE {FALSE}

\* FrameView::createPageMask
createPageMask(start_bit, end_bit) ==
    IF start_bit > end_bit THEN 0
    ELSE ToU8(BitXor(ShiftLeft(1, end_bit + 1) - 1, ShiftLeft(1, start_bit) - 1))

\* calculatePageMask() that does not clip the first page to the top of the view
calculatePageMask_NoClipTop(v, page) ==
    LET page_top == ToPixel(ShiftLeft(page, 3))
        page_bottom == ToPixel(page_top + 7)
        visible_top == page_top
        visible_bottom == ToPixel(Min(v.offset_y + v.height, page_bottom + 1))
    IN  IF visible_top >= visible_bottom THEN 0
        ELSE createPageMask(ToU8(visible_top - page_top),
                            ToU8(visible_bottom - page_top - 1))

\* FrameView::calculatePageMask
calculatePageMask(v, page) ==
    LET page_top == ToPixel(ShiftLeft(page, 3))
        page_bottom == ToPixel(page_top + 7)
        visible_top == Max(v.offset_y, page_top)
        visible_bottom == ToPixel(Min(v.offset_y + v.height, page_bottom + 1))
    IN  IF visible_top >= visible_bottom THEN 0
        ELSE createPageMask(ToU8(visible_top - page_top),
                            ToU8(visible_bottom - page_top - 1))

\* FrameView::fill, the loop over the columns of one page
RECURSIVE fillColumns(_, _, _, _, _, _)
fillColumns(v, m, page, mask, x, value) ==
    IF x >= v.width THEN m
    ELSE LET abs_x == toAbsoluteX(v, x)
             m1 == IF abs_x < 0 \/ abs_x >= v.stride THEN m
                   ELSE writeData(v, m, abs_x, page, mask, value)
         IN  fillColumns(v, m1, page, mask, x + 1, value)

\* FrameView::fill, the loop over the pages
RECURSIVE fillPages(_, _, _, _, _)
fillPages(v, m, page, end_page, value) ==
    IF page > end_page THEN m
    ELSE LET mask == calculatePageMask(v, page)
             m1 == IF mask = 0 THEN m ELSE fillColumns(v, m, page, mask, 0, value)
         IN  fillPages(v, m1, page + 1, end_page, value)

\* FrameView::fill
fill(v, m, value) ==
    LET start_page == ToPixel(ShiftRight(v.offset_y, 3))
        end_page == ToPixel(ShiftRight(v.offset_y + v.height + 6, 3))
    IN  fillPages(v, m, start_page, end_page, value)

---------------------------------------------------------------------------
(* FrameView: bitmaps.  A BitMap<W, H> is [W, H, buffer], its buffer the    *)
(* sequence of its W * pages bytes (C index i is buffer[i + 1]).            *)

\* BitMap<W, H>::pages
BitMapPages(bitmap) == (bitmap.H + 7) \div 8

\* FrameView::calculateBitmapMask
calculateBitmapMask(v, page_y) ==
    LET clip_top == IF page_y < v.offset_y THEN ToU8(v.offset_y - page_y) ELSE 0
        clip_bottom == IF page_y + 7 >= v.offset_y + v.height
                       THEN ToU8(v.offset_y + v.height - page_y - 1)
                       ELSE 7
    IN  createPageMask(clip_top, clip_bottom)

\* writeBitmapData() without the part that falls into the next page
writeBitmapData_NoNextPage(v, m, abs_x, page_y, data, on) ==
    LET page == ToPixel(ShiftRight(page_y, 3))
        offset == ToU8(page_y % PageRows)
    IN  writeData(v, m, abs_x, page, ShiftLeft(data, offset), on)

\* FrameView::writeBitmapData
writeBitmapData(v, m, abs_x, page_y, data, on) ==
    LET page == ToPixel(ShiftRight(page_y, 3))
        offset == ToU8(page_y % PageRows)
    IN  IF offset = 0 THEN writeData(v, m, abs_x, page, data, on)
        ELSE LET m1 == writeData(v, m, abs_x, page, ShiftLeft(data, offset), on)
                 next_page == ToPixel(page + 1)
             IN  writeData(v, m1, abs_x, next_page, ShiftRight(data, 8 - offset), on)

\* FrameView::drawBitmapRow, from column bx on
RECURSIVE drawBitmapRow(_, _, _, _, _, _, _, _, _)
drawBitmapRow(v, m, bitmap, page_idx, x, page_y, mask, on, bx) ==
    IF bx >= bitmap.W THEN m
    ELSE LET abs_x == ToPixel(v.offset_x + x)
             target_x == ToPixel(abs_x + bx)
             data == BitAnd(bitmap.buffer[page_idx * bitmap.W + bx + 1], mask)
             m1 == IF target_x < v.offset_x \/ target_x >= v.offset_x + v.width THEN m
                   ELSE IF data = 0 THEN m
                   ELSE writeBitmapData(v, m, target_x, page_y, data, on)
         IN  drawBitmapRow(v, m1, bitmap, page_idx, x, page_y, mask, on, bx + 1)

\* FrameView::drawBitmap, from source page page_idx on
RECURSIVE drawBitmapPages(_, _, _, _, _, _, _)
drawBitmapPages(v, m, x, y, bitmap, on, page_idx) ==
    IF page_idx >= BitMapPages(bitmap) THEN m
    ELSE LET page_y == ToPixel(toAbsoluteY(v, y) + ShiftLeft(page_idx, 3))
             mask == calculateBitmapMask(v, page_y)
             m1 == IF page_y + 7 < v.offset_y \/ page_y >= v.offset_y + v.height THEN m
                   ELSE IF mask = 0 THEN m
                   ELSE drawBitmapRow(v, m, bitmap, page_idx, x, page_y, mask, on, 0)
         IN  drawBitmapPages(v, m1, x, y, bitmap, on, page_idx + 1)

\* FrameView::drawBitmap
drawBitmap(v, m, x, y, bitmap, on) == drawBitmapPages(v, m, x, y, bitmap, on, 0)

---------------------------------------------------------------------------
(* Canvas: rectangles.  Mode is the two-bit value of the enum:             *)
(* Fill = 3, Clear = 1, FillBorder = 2, ClearBorder = 0.                    *)

ModeFill == 3
ModeClear == 1
ModeFillBorder == 2
ModeClearBorder == 0
Modes == {ModeFill, ModeClear, ModeFillBorder, ModeClearBorder}

\* getModeValue() reading bit 0 of the mode
getModeValue_Bit0(mode) == BitAnd(mode, 1) # 0

\* Canvas::getModeValue
getModeValue(mode) == BitAnd(mode, 2) # 0

\* Canvas::isFillMode
isFillMode(mode) == BitAnd(mode, 1) # 0

\* Canvas::drawLineHorizontal, the loop from column x on
RECURSIVE lineHorizontalFrom(_, _, _, _, _, _)
lineHorizontalFrom(v, m, x, y, x1, on) ==
    IF x > x1 THEN m
    ELSE lineHorizontalFrom(v, setPixel(v, m, x, y, on), x + 1, y, x1, on)

\* Canvas::drawLineHorizontal
drawLineHorizontal(v, m, x0, y, x1, on) ==
    IF x0 > x1 THEN lineHorizontalFrom(v, m, x1, y, x0, on)
    ELSE lineHorizontalFrom(v, m, x0, y, x1, on)

\* Canvas::rect, the loop over the side columns from row y on
RECURSIVE rectSides(_, _, _, _, _, _, _)
rectSides(v, m, x0, x1, y, y1, value) ==
    IF y >= y1 THEN m
    ELSE LET m1 == setPixel(v, m, x0, y, value)
             m2 == setPixel(v, m1, x1, y, value)
         IN  rectSides(v, m2, x0, x1, y + 1, y1, value)

\* Canvas::rect on the canvas whose frame is v
rect(v, m, ax0, ay0, ax1, ay1, mode) ==
    LET x0 == Min(ax0, ax1)
        x1 == Max(ax0, ax1)
        y0 == Min(ay0, ay1)
        y1 == Max(ay0, ay1)
        value == getModeValue(mode)
    IN  IF isFillMode(mode)
        THEN LET width == ToPixel(x1 - x0 + 1)
                 height == ToPixel(y1 - y0 + 1)
             IN  fill(subUnchecked(v, width, height, x0, y0), m, value)
        ELSE LET m1 == drawLineHorizontal(v, m, x0, y0, x1, value)
                 m2 == drawLineHorizontal(v, m1, x0, y1, x1, value)
             IN  rectSides(v, m2, x0, x1, ToPixel(y0 + 1), y1, value)

\* drawCirclePoints() without the four points mirrored to the other side of
\* the horizontal axis
drawCirclePoints_UpperHalf(v, m, cx, cy, dx, dy, value) ==
    LET m1 == setPixel(v, m, ToPixel(cx + dx), ToPixel(cy + dy), value)
        m2 == setPixel(v, m1, ToPixel(cx + dy), ToPixel(cy + dx), value)
        m3 == setPixel(v, m2, ToPixel(cx - dy), ToPixel(cy + dx), value)
    IN  setPixel(v, m3, ToPixel(cx - dx), ToPixel(cy + dy), value)

\* Canvas::drawCirclePoints
drawCirclePoints(v, m, cx, cy, dx, dy, value) ==
    LET m1 == setPixel(v, m, ToPixel(cx + dx), ToPixel(cy + dy), value)
        m2 == setPixel(v, m1, ToPixel(cx + dy), ToPixel(cy + dx), value)
        m3 == setPixel(v, m2, ToPixel(cx - dy), ToPixel(cy + dx), value)
        m4 == setPixel(v, m3, ToPixel(cx - dx), ToPixel(cy + dy), value)
        m5 == setPixel(v, m4, ToPixel(cx - dx), ToPixel(cy - dy), value)
        m6 == setPixel(v, m5, ToPixel(cx - dy), ToPixel(cy - dx), value)
        m7 == setPixel(v, m6, ToPixel(cx + dy), ToPixel(cy - dx), value)
    IN  setPixel(v, m7, ToPixel(cx + dx), ToPixel(cy - dy), value)

\* Canvas::circle, its loop from the state (x, y, err) on
RECURSIVE circleLoop(_, _, _, _, _, _, _, _)
circleLoop(v, m, center_x, center_y, x, y, err, mode) ==
    IF ~(x >= y) THEN m
    ELSE LET value == getModeValue(mode)
             last_y == y
             y1 == ToPixel(y + 1)
             err1 == err + 2 * y1 + 1
             step == 2 * (err1 - x) + 1 > 0
             x1 == IF step THEN ToPixel(x - 1) ELSE x
             err2 == IF step THEN err1 - (2 * x1 + 1) ELSE err1
             start_x == IF x1 = last_y THEN last_y ELSE x1
             f1 == drawLineHorizontal(v, m, ToPixel(center_x - start_x),
                                      ToPixel(center_y + last_y),
                                      ToPixel(center_x + start_x), value)
             f2 == drawLineHorizontal(v, f1, ToPixel(center_x - start_x),
                                      ToPixel(center_y - last_y),
                                      ToPixel(center_x + start_x), value)
             f3 == drawLineHorizontal(v, f2, ToPixel(center_x - last_y),
                                      ToPixel(center_y + x1),
                                      ToPixel(center_x + last_y), value)
             f4 == drawLineHorizontal(v, f3, ToPixel(center_x - last_y),
                                      ToPixel(center_y - x1),
                                      ToPixel(center_x + last_y), value)
             b1 == drawCirclePoints(v, m, center_x, center_y, x1, y1, value)
             b2 == IF x1 # y1
                   THEN drawCirclePoints(v, b1, center_x, center_y, y1, x1, value)
                   ELSE b1
             m1 == IF isFillMode(mode) THEN f4 ELSE b2
         IN  circleLoop(v, m1, center_x, center_y, x1, y1, err2, mode)

\* Canvas::circle on the canvas whose frame is v
circle(v, m, center_x, center_y, r, mode) ==
    circleLoop(v, m, center_x, center_y, r, 0, 0, mode)

---------------------------------------------------------------------------
(* Canvas: splitting.  Weights and sizes are sequences (C index i is        *)
(* element i + 1).                                                          *)

\* calculateSplitSizes: "if (w <= 0) w = 1" on every weight
splitWeights(weights) ==
    [i \in 1 .. Len(weights) |-> IF weights[i] <= 0 THEN 1 ELSE weights[i]]

\* calculateSplitSizes: total_weight, the sum of the first n weights
RECURSIVE splitTotalWeight(_, _)
splitTotalWeight(weights, n) ==
    IF n = 0 THEN 0 ELSE ToPixel(splitTotalWeight(weights, n - 1) + weights[n])

\* calculateSplitSizes: remaining after the first n sizes are subtracted
RECURSIVE splitRemaining(_, _, _)
splitRemaining(total_size, sizes, n) ==
    IF n = 0 THEN total_size
    ELSE ToPixel(splitRemaining(total_size, sizes, n - 1) - sizes[n])

\* calculateSplitSizes without the loop that hands out the remainder
calculateSplitSizes_NoRemainder(total_size, weights) ==
    LET ws == splitWeights(weights)
        total_weight == splitTotalWeight(ws, Len(ws))
    IN  [i \in 1 .. Len(ws) |-> ToPixel(Quot(total_size * ws[i], total_weight))]

\* calculateSplitSizes: the loop that hands out the remainder, at index i
RECURSIVE splitDistribute(_, _, _)
splitDistribute(sizes, remaining, i) ==
    IF ~(remaining > 0) THEN sizes
    ELSE splitDistribute([sizes EXCEPT ![i + 1] = ToPixel(@ + 1)],
                         ToPixel(remaining - 1), (i + 1) % Len(sizes))

\* Canvas::calculateSplitSizes
calculateSplitSizes(total_size, weights) ==
    LET ws == splitWeights(weights)
        total_weight == splitTotalWeight(ws, Len(ws))
        sizes == [i \in 1 .. Len(ws) |-> ToPixel(Quot(total_size * ws[i], total_weight))]
    IN  splitDistribute(sizes, splitRemaining(total_size, sizes, Len(ws)), 0)

\* Canvas::splitHorizontally, the frames of the children from child i on, the
\* next one at column x
RECURSIVE splitHorizontallyFrom(_, _, _, _)
splitHorizontallyFrom(v, sizes, i, x) ==
    IF i > Len(sizes) THEN <<>>
    ELSE <<subUnchecked(v, sizes[i], v.height, x, 0)>>
             \o splitHorizontallyFrom(v, sizes, i + 1, ToPixel(x + sizes[i]))

\* Canvas::splitHorizontally: the frames of the children
splitHorizontally(v, weights) ==
    splitHorizontallyFrom(v, calculateSplitSizes(v.width, weights), 1, 0)

\* splitVertically() that places every child at the row of the first
RECURSIVE splitVerticallyFrom_NoAdvance(_, _, _, _)
splitVerticallyFrom_NoAdvance(v, sizes, i, y) ==
    IF i > Len(sizes) THEN <<>>
    ELSE <<subUnchecked(v, v.width, sizes[i], 0, y)>>
             \o splitVerticallyFrom_NoAdvance(v, sizes, i + 1, y)

\* Canvas::splitVertically, the frames of the children from child i on, the
\* next one at row y
RECURSIVE splitVerticallyFrom(_, _, _, _)
splitVerticallyFrom(v, sizes, i, y) ==
    IF i > Len(sizes) THEN <<>>
    ELSE <<subUnchecked(v, v.width, sizes[i], 0, y)>>
             \o splitVerticallyFrom(v, sizes, i + 1, ToPixel(y + sizes[i]))

\* Canvas::splitVertically: the frames of the children
splitVertically(v, weights) ==
    splitVerticallyFrom(v, calculateSplitSizes(v.height, weights), 1, 0)

---------------------------------------------------------------------------
(* Font.  A font is [data, glyph_width, glyph_height]; data is "nullptr" or  *)
(* "table", a table of glyph_width bytes for each character from start_char *)
(* to end_char.                                                             *)

start_char == 32
end_char == 127

\* Font::blank()
FontBlank == [data |-> "nullptr", glyph_width |-> 3, glyph_height |-> 5]

\* byte col of the glyph of character c in a font table
GlyphByte(c, col) == (c * 37 + col * 91 + 9) % 256

\* Font::widthTotal
widthTotal(font) == ToU8(font.glyph_width + 1)

\* Font::heightTotal
heightTotal(font) == ToU8(font.glyph_height + 1)

\* the null glyph pointer
NullGlyph == [null |-> TRUE, bytes |-> <<>>]

\* Font::getGlyph: the null pointer or the bytes of the glyph, column 0 first
getGlyph(font, c) ==
    IF font.data = "nullptr" \/ c < start_char \/ c > end_char THEN NullGlyph
    ELSE [null |-> FALSE,
          bytes |-> [col \in 0 .. font.glyph_width - 1 |-> GlyphByte(c, col)]]

---------------------------------------------------------------------------
(* Canvas: text.  A text state t is the memory state t.m, the cursor, the   *)
(* ink t.on, t.done once text() has returned, and t.steps, one record for   *)
(* each character processed.                                                *)

\* Canvas::maxX
maxX(v) == ToPixel(v.width - 1)

\* Canvas::maxY
maxY(v) == ToPixel(v.height - 1)

\* Canvas::centerX
centerX(v) == ToPixel(Quot(maxX(v), 2))

\* maxGlyphX() that allows a glyph to start at any column up to the frame's width
maxGlyphX_FrameWidth(v, font) == ToPixel(v.width)

\* Canvas::maxGlyphX
maxGlyphX(v, font) == ToPixel(v.width - font.glyph_width)

\* Canvas::maxGlyphY
maxGlyphY(v, font) == ToPixel(v.height - font.glyph_height)

\* Canvas::tabWidth
tabWidth(font) == ToPixel(widthTotal(font) * 4)

\* Canvas::drawLineVertical, the loop from row y on
RECURSIVE lineVerticalFrom(_, _, _, _, _, _)
lineVerticalFrom(v, m, x, y, y1, on) ==
    IF y > y1 THEN m
    ELSE lineVerticalFrom(v, setPixel(v, m, x, y, on), x, y + 1, y1, on)

\* Canvas::drawLineVertical
drawLineVertical(v, m, x, y0, y1, on) ==
    IF y0 > y1 THEN lineVerticalFrom(v, m, x, y1, y0, on)
    ELSE lineVerticalFrom(v, m, x, y0, y1, on)

\* Canvas::line, the loop of Bresenham's algorithm from the point (x0, y0) on;
\* error and double_error are int. exit tells where the loop was left: at the
\* combined test ("target"), at the inner test of x0 ("x") or of y0 ("y"), or
\* not within MaxLineSteps iterations ("open")
RECURSIVE lineLoop(_, _, _, _, _, _, _, _, _, _, _, _, _)
lineLoop(v, m, x0, y0, x1, y1, dx, dy, sx, sy, error, on, steps) ==
    LET m1 == setPixel(v, m, x0, y0, on)
        double_error == 2 * error
        stepX == double_error >= dy
        stepY == double_error <= dx
        errorX == IF stepX THEN error + dy ELSE error
        nextX == IF stepX THEN ToPixel(x0 + sx) ELSE x0
        errorY == IF stepY THEN errorX + dx ELSE errorX
        nextY == IF stepY THEN ToPixel(y0 + sy) ELSE y0
        left(exit, x, y) == [m |-> m1, exit |-> exit, x |-> x, y |-> y]
    IN  IF x0 = x1 /\ y0 = y1 THEN left("target", x0, y0)
        ELSE IF stepX /\ x0 = x1 THEN left("x", x0, y0)
        ELSE IF stepY /\ y0 = y1 THEN left("y", nextX, y0)
        ELSE IF steps + 1 >= MaxLineSteps THEN left("open", nextX, nextY)
        ELSE lineLoop(v, m1, nextX, nextY, x1, y1, dx, dy, sx, sy, errorY, on,
                      steps + 1)

\* Canvas::line without its short-circuits: Bresenham's algorithm
lineBresenham(v, m, x0, y0, x1, y1, on) ==
    LET dx == ToPixel(Abs(x1 - x0))
        dy == ToPixel(-Abs(y1 - y0))
        sx == IF x0 < x1 THEN 1 ELSE -1
        sy == IF y0 < y1 THEN 1 ELSE -1
    IN  lineLoop(v, m, x0, y0, x1, y1, dx, dy, sx, sy, dx + dy, on, 0)

\* Canvas::line; the short-circuits leave no loop of Bresenham's ("none")
line(v, m, x0, y0, x1, y1, on) ==
    LET direct(m1) == [m |-> m1, exit |-> "none", x |-> x1, y |-> y1]
    IN  IF x0 = x1
        THEN IF y0 = y1 THEN direct(setPixel(v, m, x0, y0, on))
             ELSE direct(drawLineVertical(v, m, x0, y0, y1, on))
        ELSE IF y0 = y1 THEN direct(drawLineHorizontal(v, m, x0, y0, x1, on))
        ELSE lineBresenham(v, m, x0, y0, x1, y1, on)

\* clearLineSegment() that paints in the ink instead of its inverse
clearLineSegment_InkNotInverted(v, font, m, cx, cy, x, on) ==
    rect(v, m, cx, cy, x, ToPixel(cy + font.glyph_height),
         IF on THEN ModeFill ELSE ModeClear)

\* Canvas::clearLineSegment with the cursor at (cx, cy)
clearLineSegment(v, font, m, cx, cy, x, on) ==
    rect(v, m, cx, cy, x, ToPixel(cy + font.glyph_height),
         IF on THEN ModeClear ELSE ModeFill)

\* Canvas::drawGlyph, the loops from (col_index, bit_index) on
RECURSIVE glyphFrom(_, _, _, _, _, _, _, _, _)
glyphFrom(v, font, m, x, y, glyph, on, col_index, bit_index) ==
    IF col_index >= font.glyph_width THEN m
    ELSE IF bit_index > font.glyph_height
    THEN glyphFrom(v, font, m, x, y, glyph, on, ToU8(col_index + 1), 0)
    ELSE LET pixel_x == ToPixel(x + col_index)
             lit == BitAnd(glyph.bytes[col_index], ShiftLeft(1, bit_index)) # 0
             m1 == setPixel(v, m, pixel_x, ToPixel(y + bit_index), lit = on)
         IN  glyphFrom(v, font, m1, x, y, glyph, on, col_index, ToU8(bit_index + 1))

\* Canvas::drawGlyph
drawGlyph(v, font, m, x, y, glyph, on) ==
    IF glyph.null
    THEN rect(v, m, x, y, ToPixel(x + font.glyph_width - 1),
              ToPixel(y + font.glyph_height - 1),
              IF on THEN ModeFillBorder ELSE ModeClearBorder)
    ELSE glyphFrom(v, font, m, x, y, glyph, on, 0, 0)

\* the characters text() treats specially
CharNormal == 128
CharInvert == 129
CharCenter == 130
CharNewline == 10
CharTab == 9

\* text() that starts in the ink Normal whatever its argument
TextStart_InkNormal(m, cx, cy, on) ==
    [m |-> m, cursor_x |-> cx, cursor_y |-> cy, on |-> TRUE, done |-> FALSE,
     steps |-> <<>>]

\* the text state in which text(., on) starts
TextStart(m, cx, cy, on) ==
    [m |-> m, cursor_x |-> cx, cursor_y |-> cy, on |-> on, done |-> FALSE,
     steps |-> <<>>]

\* the record of one character: the cursor and the ink before and after it,
\* whether its glyph was drawn and where, and the buffer before and after it
TextStep(t, c, t1, drawn, gx, gy) ==
    [c |-> c, x0 |-> t.cursor_x, y0 |-> t.cursor_y, on0 |-> t.on,
     x1 |-> t1.cursor_x, y1 |-> t1.cursor_y, on |-> t1.on,
     drawn |-> drawn, gx |-> gx, gy |-> gy,
     before |-> t.m.buf, after |-> t1.m.buf, done |-> t1.done]

\* text() that moves the cursor past the separator column only when it drew it
textGlyph_AdvanceIfSeparator(v, font, auto, t, c) ==
    LET over == t.cursor_x > maxGlyphX(v, font)
        m1 == IF over
              THEN clearLineSegment(v, font, t.m, t.cursor_x, t.cursor_y, maxX(v), t.on)
              ELSE t.m
        stop1 == over /\ ~auto
        x1 == IF over /\ auto THEN 0 ELSE t.cursor_x
        y1 == IF over /\ auto THEN ToPixel(t.cursor_y + heightTotal(font))
              ELSE t.cursor_y
        stop2 == y1 > maxGlyphY(v, font)
        m2 == drawGlyph(v, font, m1, x1, y1, getGlyph(font, c), t.on)
        x2 == ToPixel(x1 + font.glyph_width)
        m3 == IF x2 < v.width
              THEN drawLineVertical(v, m2, x2, y1, ToPixel(y1 + font.glyph_height), ~t.on)
              ELSE m2
        x3 == IF x2 < v.width THEN ToPixel(x2 + 1) ELSE x2
        t1 == IF stop1 THEN [t EXCEPT !.m = m1, !.done = TRUE]
              ELSE IF stop2
              THEN [t EXCEPT !.m = m1, !.cursor_x = x1, !.cursor_y = y1, !.done = TRUE]
              ELSE [t EXCEPT !.m = m3, !.cursor_x = x3, !.cursor_y = y1]
    IN  [t1 EXCEPT !.steps = Append(@, TextStep(t, c, t1, ~t1.done, x1, y1))]

\* Canvas::text, an ordinary character
textGlyph(v, font, auto, t, c) ==
    LET over == t.cursor_x > maxGlyphX(v, font)
        m1 == IF over
              THEN clearLineSegment(v, font, t.m, t.cursor_x, t.cursor_y, maxX(v), t.on)
              ELSE t.m
        stop1 == over /\ ~auto
        x1 == IF over /\ auto THEN 0 ELSE t.cursor_x
        y1 == IF over /\ auto THEN ToPixel(t.cursor_y + heightTotal(font))
              ELSE t.cursor_y
        stop2 == y1 > maxGlyphY(v, font)
        m2 == drawGlyph(v, font, m1, x1, y1, getGlyph(font, c), t.on)
        x2 == ToPixel(x1 + font.glyph_width)
        m3 == IF x2 < v.width
              THEN drawLineVertical(v, m2, x2, y1, ToPixel(y1 + font.glyph_height), ~t.on)
              ELSE m2
        x3 == ToPixel(x2 + 1)
        t1 == IF stop1 THEN [t EXCEPT !.m = m1, !.done = TRUE]
              ELSE IF stop2
              THEN [t EXCEPT !.m = m1, !.cursor_x = x1, !.cursor_y = y1, !.done = TRUE]
              ELSE [t EXCEPT !.m = m3, !.cursor_x = x3, !.cursor_y = y1]
    IN  [t1 EXCEPT !.steps = Append(@, TextStep(t, c, t1, ~t1.done, x1, y1))]

\* Canvas::text, one character
textChar(v, font, auto, t, c) ==
    LET noted(t1) == [t1 EXCEPT !.steps = Append(@, TextStep(t, c, t1, FALSE, 0, 0))]
    IN  IF c = CharNormal THEN noted([t EXCEPT !.on = TRUE])
        ELSE IF c = CharInvert THEN noted([t EXCEPT !.on = FALSE])
        ELSE IF c = CharCenter
        THEN LET new_x == centerX(v)
                 m1 == clearLineSegment(v, font, t.m, t.cursor_x, t.cursor_y, new_x, t.on)
             IN  noted([t EXCEPT !.m = m1, !.cursor_x = new_x])
        ELSE IF c = CharNewline
        THEN LET m1 == clearLineSegment(v, font, t.m, t.cursor_x, t.cursor_y, maxX(v), t.on)
             IN  noted([t EXCEPT !.m = m1, !.cursor_x = 0,
                                 !.cursor_y = ToPixel(t.cursor_y + heightTotal(font))])
        ELSE IF c = CharTab
        THEN LET tab_width == tabWidth(font)
                 new_x == ToPixel((Quot(t.cursor_x, tab_width) + 1) * tab_width)
                 m1 == clearLineSegment(v, font, t.m, t.cursor_x, t.cursor_y, new_x, t.on)
             IN  noted([t EXCEPT !.m = m1, !.cursor_x = new_x])
        ELSE textGlyph(v, font, auto, t, c)

\* Canvas::text, the loop from character i of the string on
RECURSIVE textFrom(_, _, _, _, _, _)
textFrom(v, font, auto, t, str, i) ==
    IF i > Len(str) \/ t.done THEN t
    ELSE textFrom(v, font, auto, textChar(v, font, auto, t, str[i]), str, i + 1)

\* Canvas::text on the canvas whose frame is v
text(v, font, auto, m, cx, cy, str, on) ==
    textFrom(v, font, auto, TextStart(m, cx, cy, on), str, 1)

---------------------------------------------------------------------------
(* The state of the model *)

NoBitmap == [W |-> 0, H |-> 0, buffer |-> <<>>]

NoCall ==
    [op |-> "none", buffer |-> "nullptr", stride |-> 0, w |-> 0, h |-> 0,
     x |-> 0, y |-> 0, x1 |-> 0, y1 |-> 0, on |-> FALSE, mode |-> 0,
     bitmap |-> NoBitmap, seq |-> <<>>, via |-> "none", first |-> 0]

NoResult == [ok |-> FALSE, error |-> "none", value |-> FrameViewDefault]

ZeroBuf == [i \in 0 .. BufLen - 1 |-> 0]
OnesBuf == [i \in 0 .. BufLen - 1 |-> 255]
PatternBuf == [i \in 0 .. BufLen - 1 |-> (165 + 37 * i) % 256]
InitBufs == {ZeroBuf, OnesBuf, PatternBuf}

\* the state in which a canvas with the font and the auto_next_line setting
\* holds view v over display buffer b and nothing was called
StartCanvas(v, b, font, auto) ==
    /\ buf = b
    /\ prev = b
    /\ view = v
    /\ root = v
    /\ acc = <<0, 0>>
    /\ depth = 0
    /\ res = NoResult
    /\ call = NoCall
    /\ ret = FALSE
    /\ fault = "none"
    /\ hist = <<>>
    /\ nops = 0
    /\ cursor_x = 0
    /\ cursor_y = 0
    /\ auto_next_line = auto
    /\ current_font = font
    /\ last = [p \in (0 .. Stride - 1) \X (0 .. DisplayHeight - 1) |->
                   Bit(b[(p[2] \div PageRows) * Stride + p[1]], p[2] % PageRows) = 1]

\* the state in which view v is held over display buffer b and nothing was called
Start(v, b) == StartCanvas(v, b, FontBlank, FALSE)

Dims == -1 .. MaxDim
Offs == -1 .. MaxOff
Strides == {0, Stride}

\* the frame views of the data model: a buffer, a size of at least 1 x 1 and
\* a rectangle that lies inside the display
WellFormed(v) ==
    /\ v.buffer = "buf"
    /\ v.stride = Stride
    /\ v.width >= 1
    /\ v.height >= 1
    /\ v.offset_x >= 0
    /\ v.offset_x + v.width <= Stride
    /\ v.offset_y >= 0
    /\ v.offset_y + v.height <= DisplayHeight

\* the well-formed views of width and height up to (w, h)
ViewsUpTo(w, h) ==
    {v \in {FrameViewCtor("buf", Stride, vw, vh, ox, oy) :
                vw \in 1 .. w, vh \in 1 .. h,
                ox \in 0 .. Stride - 1, oy \in 0 .. DisplayHeight - 1} :
        WellFormed(v)}

\* views without a buffer, as FrameView() and the unchecked constructor build them
NullViews ==
    {FrameViewCtor("nullptr", s, w, h, 0, 0) :
        s \in Strides, w \in 0 .. MaxDim, h \in 0 .. MaxDim}

\* views that reach over an edge of the display, as subUnchecked() builds them
OverhangViews ==
    {FrameViewCtor("buf", Stride, MaxDim, MaxDim, ox, oy) :
        ox \in {-1, Stride - 1}, oy \in {-1, DisplayHeight - 1}}

---------------------------------------------------------------------------
(* Construction: create() and the unchecked constructors, each applied once *)

Create(buffer, stride, w, h, ox, oy) ==
    /\ res' = create(buffer, stride, w, h, ox, oy)
    /\ view' = res'.value
    /\ root' = view'
    /\ call' = [NoCall EXCEPT !.op = "create", !.buffer = buffer, !.stride = stride,
                              !.w = w, !.h = h, !.x = ox, !.y = oy]
    /\ nops' = nops + 1
    /\ UNCHANGED <<buf, prev, acc, depth, ret, fault, hist, canvasVars, last>>

Construct(buffer, stride, w, h, ox, oy) ==
    /\ view' = FrameViewCtor(buffer, stride, w, h, ox, oy)
    /\ root' = view'
    /\ res' = NoResult
    /\ call' = [NoCall EXCEPT !.op = "ctor", !.buffer = buffer, !.stride = stride,
                              !.w = w, !.h = h, !.x = ox, !.y = oy]
    /\ nops' = nops + 1
    /\ UNCHANGED <<buf, prev, acc, depth, ret, fault, hist, canvasVars, last>>

DefaultConstruct ==
    /\ view' = FrameViewDefault
    /\ root' = view'
    /\ res' = NoResult
    /\ call' = [NoCall EXCEPT !.op = "default"]
    /\ nops' = nops + 1
    /\ UNCHANGED <<buf, prev, acc, depth, ret, fault, hist, canvasVars, last>>

InitCreate == Start(FrameViewDefault, ZeroBuf)

NextCreate ==
    /\ nops = 0
    /\ \/ \E b \in Ptrs, s \in Strides, w \in Dims, h \in Dims, ox \in Offs, oy \in Offs :
             Create(b, s, w, h, ox, oy)
       \/ \E b \in Ptrs, s \in Strides, w \in Dims, h \in Dims, ox \in Offs, oy \in Offs :
             Construct(b, s, w, h, ox, oy)
       \/ DefaultConstruct

SpecCreate == InitCreate /\ [][NextCreate]_vars

---------------------------------------------------------------------------
(* Checked sub() applied once to a view *)

\* the views sub() is applied to: every size up to MaxDim, with and without a buffer
SubViews ==
    {FrameViewCtor(b, Stride, w, h, ox, oy) :
        b \in Ptrs, w \in 0 .. MaxDim, h \in 0 .. MaxDim,
        ox \in {0, MaxOff}, oy \in {0, MaxOff}}

\* view.sub(sw, sh, sx, sy); the receiver is const
Sub(sw, sh, sx, sy) ==
    /\ res' = sub(view, sw, sh, sx, sy)
    /\ call' = [NoCall EXCEPT !.op = "sub", !.w = sw, !.h = sh, !.x = sx, !.y = sy]
    /\ nops' = nops + 1
    /\ UNCHANGED <<buf, prev, view, root, acc, depth, ret, fault, hist, canvasVars, last>>

InitSub == \E v \in SubViews : Start(v, ZeroBuf)

NextSub ==
    /\ nops = 0
    /\ \E sw \in -1 .. MaxDim + 1, sh \in -1 .. MaxDim + 1,
          sx \in -1 .. MaxDim, sy \in -1 .. MaxDim : Sub(sw, sh, sx, sy)

SpecSub == InitSub /\ [][NextSub]_vars

---------------------------------------------------------------------------
(* Chains of checked sub() calls from a created root *)

ChainRoots ==
    {create("buf", Stride, w, h, ox, oy).value :
        w \in 1 .. MaxDim, h \in 1 .. MaxDim, ox \in {0, MaxOff}, oy \in {0, MaxOff}}

\* view = view.sub(sw, sh, sx, sy).value when the call succeeds
Descend(sw, sh, sx, sy) ==
    /\ depth < MaxDepth
    /\ res' = sub(view, sw, sh, sx, sy)
    /\ call' = [NoCall EXCEPT !.op = "sub"]
    /\ IF res'.ok
       THEN /\ view' = res'.value
            /\ acc' = <<acc[1] + sx, acc[2] + sy>>
            /\ depth' = depth + 1
       ELSE UNCHANGED <<view, acc, depth>>
    /\ UNCHANGED <<buf, prev, root, ret, fault, hist, nops, canvasVars, last>>

InitChain == \E v \in ChainRoots : Start(v, ZeroBuf)

NextChain ==
    \E sw \in 0 .. MaxDim, sh \in 0 .. MaxDim, sx \in Offs, sy \in Offs :
        Descend(sw, sh, sx, sy)

SpecChain == InitChain /\ [][NextChain]_vars

---------------------------------------------------------------------------
(* Pixel operations *)

\* view.setPixel(x, y, on)
SetPixel(x, y, on) ==
    LET m == setPixel(view, Mem(buf), x, y, on)
    IN  /\ buf' = m.buf
        /\ prev' = buf
        /\ fault' = m.fault
        /\ call' = [NoCall EXCEPT !.op = "setPixel", !.x = x, !.y = y, !.on = on]
        /\ hist' = Append(hist, [op |-> "setPixel", x |-> x, y |-> y, on |-> on,
                                 ret |-> FALSE])
        /\ nops' = nops + 1
        /\ UNCHANGED <<view, root, acc, depth, res, ret, canvasVars, last>>

\* ret = view.getPixel(x, y)
GetPixel(x, y) ==
    /\ ret' \in getPixel(view, buf, x, y)
    /\ fault' = getPixelFault(view, x, y)
    /\ prev' = buf
    /\ call' = [NoCall EXCEPT !.op = "getPixel", !.x = x, !.y = y]
    /\ hist' = Append(hist, [op |-> "getPixel", x |-> x, y |-> y, on |-> FALSE,
                             ret |-> ret'])
    /\ nops' = nops + 1
    /\ UNCHANGED <<buf, view, root, acc, depth, res, canvasVars, last>>

\* one pixel operation on any view, at any coordinate up to one outside the view
PixelViews == ViewsUpTo(MaxDim, MaxDim) \cup NullViews \cup OverhangViews

InitPixel == \E v \in PixelViews, b \in InitBufs : Start(v, b)

NextPixel ==
    /\ nops = 0
    /\ \E x \in -1 .. view.width, y \in -1 .. view.height :
          \/ \E on \in BOOLEAN : SetPixel(x, y, on)
          \/ GetPixel(x, y)

SpecPixel == InitPixel /\ [][NextPixel]_vars

\* setPixel() and getPixel() in turn on one pixel of a view inside the display,
\* from a zero-initialized buffer
InitRoundTrip == \E v \in ViewsUpTo(MaxDim, MaxDim) : Start(v, ZeroBuf)

NextRoundTrip ==
    /\ nops < MaxOps
    /\ \E x \in 0 .. view.width - 1, y \in 0 .. view.height - 1 :
          /\ nops > 0 => (x = call.x /\ y = call.y)
          /\ \/ call.op # "setPixel" /\ \E on \in BOOLEAN : SetPixel(x, y, on)
             \/ call.op = "setPixel" /\ GetPixel(x, y)

SpecRoundTrip == InitRoundTrip /\ [][NextRoundTrip]_vars

---------------------------------------------------------------------------
(* fill() applied once *)

Fill(value) ==
    LET m == fill(view, Mem(buf), value)
    IN  /\ buf' = m.buf
        /\ prev' = buf
        /\ fault' = m.fault
        /\ call' = [NoCall EXCEPT !.op = "fill", !.on = value]
        /\ nops' = nops + 1
        /\ UNCHANGED <<view, root, acc, depth, res, ret, hist, canvasVars, last>>

FillViews == ViewsUpTo(Stride, DisplayHeight) \cup NullViews \cup OverhangViews

InitFill == \E v \in FillViews, b \in InitBufs : Start(v, b)

NextFill == nops = 0 /\ \E value \in BOOLEAN : Fill(value)

SpecFill == InitFill /\ [][NextFill]_vars

---------------------------------------------------------------------------
(* drawBitmap() applied once *)

Bitmaps ==
    {[W |-> 2, H |-> 16, buffer |-> <<255, 255, 255, 255>>],
     [W |-> 2, H |-> 16, buffer |-> <<165, 60, 129, 90>>],
     [W |-> 1, H |-> 8, buffer |-> <<195>>],
     [W |-> 2, H |-> 5, buffer |-> <<21, 14>>]}

\* the tallest and the widest bitmap
BitmapMaxH == CHOOSE h \in {b.H : b \in Bitmaps} : \A b \in Bitmaps : b.H <= h
BitmapMaxW == CHOOSE w \in {b.W : b \in Bitmaps} : \A b \in Bitmaps : b.W <= w

DrawBitmap(x, y, bitmap, on) ==
    LET m == drawBitmap(view, Mem(buf), x, y, bitmap, on)
    IN  /\ buf' = m.buf
        /\ prev' = buf
        /\ fault' = m.fault
        /\ call' = [NoCall EXCEPT !.op = "drawBitmap", !.x = x, !.y = y, !.on = on,
                                  !.bitmap = bitmap]
        /\ nops' = nops + 1
        /\ UNCHANGED <<view, root, acc, depth, res, ret, hist, canvasVars, last>>

\* the rows <<offset_y, height>> of the views bitmaps are drawn into: the whole
\* display, one page, and windows that start and end inside a page
BitmapRows ==
    {<<0, DisplayHeight>>, <<0, PageRows>>, <<PageRows, PageRows>>,
     <<3, 10>>, <<5, 2>>, <<13, 11>>, <<9, 15>>}

BitmapViews ==
    {v \in ViewsUpTo(Stride, DisplayHeight) : <<v.offset_y, v.height>> \in BitmapRows}
        \cup NullViews \cup OverhangViews

InitBitmap == \E v \in BitmapViews, b \in {ZeroBuf, OnesBuf} : Start(v, b)

NextBitmap ==
    /\ nops = 0
    /\ \E x \in -BitmapMaxW .. Stride, y \in -(BitmapMaxH + 1) .. DisplayHeight,
          bitmap \in Bitmaps, on \in BOOLEAN : DrawBitmap(x, y, bitmap, on)

SpecBitmap == InitBitmap /\ [][NextBitmap]_vars

---------------------------------------------------------------------------
(* Canvas::rect() applied once to a canvas whose frame is the view *)

Rect(x0, y0, x1, y1, mode) ==
    LET m == rect(view, Mem(buf), x0, y0, x1, y1, mode)
    IN  /\ buf' = m.buf
        /\ prev' = buf
        /\ fault' = m.fault
        /\ call' = [NoCall EXCEPT !.op = "rect", !.x = x0, !.y = y0, !.x1 = x1,
                                  !.y1 = y1, !.mode = mode]
        /\ hist' = m.log
        /\ nops' = nops + 1
        /\ UNCHANGED <<view, root, acc, depth, res, ret, canvasVars, last>>

\* the frames rectangles are drawn into: the full width of the display, a
\* window inside it and its last column, over rows that cross page borders
RectColumns == {<<0, Stride>>, <<1, Stride - 1>>, <<Stride - 1, 1>>}
RectRows == {<<6, 4>>, <<5, 12>>}

RectViews ==
    {v \in ViewsUpTo(Stride, DisplayHeight) :
        /\ <<v.offset_x, v.width>> \in RectColumns
        /\ <<v.offset_y, v.height>> \in RectRows}

InitRect == \E v \in RectViews, b \in InitBufs : Start(v, b)

\* corners up to one pixel outside the frame
NextRect ==
    /\ nops = 0
    /\ \E x0 \in -1 .. view.width, x1 \in -1 .. view.width,
          y0 \in -1 .. view.height, y1 \in -1 .. view.height, mode \in Modes :
          Rect(x0, y0, x1, y1, mode)

SpecRect == InitRect /\ [][NextRect]_vars

---------------------------------------------------------------------------
(* Canvas::circle() applied once to a canvas whose frame is the view *)

Circle(center_x, center_y, r, mode) ==
    LET m == circle(view, Mem(buf), center_x, center_y, r, mode)
    IN  /\ buf' = m.buf
        /\ prev' = buf
        /\ fault' = m.fault
        /\ call' = [NoCall EXCEPT !.op = "circle", !.x = center_x, !.y = center_y,
                                  !.w = r, !.mode = mode]
        /\ hist' = m.log
        /\ nops' = nops + 1
        /\ UNCHANGED <<view, root, acc, depth, res, ret, canvasVars, last>>

\* the frames circles are drawn into: the whole display and a window of it
CircleViews ==
    {v \in ViewsUpTo(Stride, DisplayHeight) :
        \/ v.width = Stride /\ v.height = DisplayHeight
        \/ /\ <<v.offset_x, v.width>> = <<1, Stride - 1>>
           /\ <<v.offset_y, v.height>> = <<5, 12>>}

InitCircle == \E v \in CircleViews, b \in {ZeroBuf, OnesBuf} : Start(v, b)

\* centres up to one pixel outside the frame, radii from -1
NextCircle ==
    /\ nops = 0
    /\ \E center_x \in -1 .. view.width, center_y \in -1 .. view.height,
          r \in -1 .. MaxRadius, mode \in Modes :
          Circle(center_x, center_y, r, mode)

SpecCircle == InitCircle /\ [][NextCircle]_vars

---------------------------------------------------------------------------
(* Canvas::line() applied once to a canvas whose frame is the view *)

Line(x0, y0, x1, y1, on) ==
    LET drawn == line(view, Mem(buf), x0, y0, x1, y1, on)
    IN  /\ buf' = drawn.m.buf
        /\ prev' = buf
        /\ fault' = drawn.m.fault
        /\ call' = [NoCall EXCEPT !.op = "line", !.x = x0, !.y = y0, !.x1 = x1,
                                  !.y1 = y1, !.on = on]
        /\ hist' = drawn.m.log
        /\ nops' = nops + 1
        /\ UNCHANGED <<view, root, acc, depth, res, ret, canvasVars, last>>

\* the frames lines are drawn into: a window across a page boundary and a
\* window at the display's top
LineViews ==
    {v \in ViewsUpTo(Stride, DisplayHeight) :
        \/ <<v.offset_x, v.width, v.offset_y, v.height>> = <<0, Stride, 6, 4>>
        \/ <<v.offset_x, v.width, v.offset_y, v.height>> = <<1, Stride - 1, 0, 3>>}

InitLine == \E v \in LineViews, b \in {ZeroBuf, OnesBuf} : Start(v, b)

\* endpoints up to one pixel outside the frame, and sloped lines between the
\* least and the largest column of the coordinate type
NextLine ==
    /\ nops = 0
    /\ \E y0 \in -1 .. view.height, y1 \in -1 .. view.height, on \in BOOLEAN :
          \/ \E x0 \in -1 .. view.width, x1 \in -1 .. view.width :
                Line(x0, y0, x1, y1, on)
          \/ /\ y0 # y1
             /\ \/ Line(MinPixel, y0, MaxPixel, y1, on)
                \/ Line(MaxPixel, y0, MinPixel, y1, on)

SpecLine == InitLine /\ [][NextLine]_vars

---------------------------------------------------------------------------
(* Canvas::setCursor() and Canvas::text() on a canvas whose frame is the view *)

\* a font with a table of glyphs one column wide and two rows high
FontTiny == [data |-> "table", glyph_width |-> 1, glyph_height |-> 2]

Fonts == {FontBlank, FontTiny}

\* a character with a glyph and the five characters text() treats specially
CharA == 65
TextChars == {CharA, CharTab, CharNewline, CharNormal, CharInvert, CharCenter}

RECURSIVE StringsUpTo(_)
StringsUpTo(n) ==
    IF n = 0 THEN {<<>>}
    ELSE LET shorter == StringsUpTo(n - 1)
         IN  shorter \cup {Append(str, c) : str \in shorter, c \in TextChars}

\* canvas.setCursor(x, y)
SetCursor(x, y) ==
    /\ cursor_x' = x
    /\ cursor_y' = y
    /\ call' = [NoCall EXCEPT !.op = "setCursor", !.x = x, !.y = y]
    /\ nops' = nops + 1
    /\ UNCHANGED <<buf, prev, view, root, acc, depth, res, ret, fault, hist,
                   auto_next_line, current_font, last>>

\* canvas.text(str, on); call.x and call.y keep the cursor text() started from,
\* hist the characters processed by every text() so far, and call.first the
\* place in hist of the first character of this call
Text(str, on) ==
    LET t == text(view, current_font, auto_next_line, Mem(buf), cursor_x, cursor_y,
                  str, on)
    IN  /\ buf' = t.m.buf
        /\ prev' = buf
        /\ fault' = t.m.fault
        /\ cursor_x' = t.cursor_x
        /\ cursor_y' = t.cursor_y
        /\ hist' = hist \o t.steps
        /\ call' = [NoCall EXCEPT !.op = "text", !.x = cursor_x, !.y = cursor_y,
                                  !.on = on, !.seq = str, !.first = Len(hist) + 1]
        /\ nops' = nops + 1
        /\ UNCHANGED <<view, root, acc, depth, res, ret, auto_next_line, current_font, last>>

\* the frame text is drawn into: the full width of the display, over rows that
\* cross a page border and leave rows of the display above and below
TextViews ==
    {v \in ViewsUpTo(Stride, DisplayHeight) :
        <<v.offset_x, v.width, v.offset_y, v.height>> = <<0, Stride, 5, 7>>}

InitText ==
    \E v \in TextViews, font \in Fonts, auto \in BOOLEAN :
        StartCanvas(v, PatternBuf, font, auto)

\* the cursor is set at most once, to any column from -MaxCursor to MaxCursor
\* and any row from one above the frame to its height, then text() is called
\* once
NextText ==
    \/ /\ call.op = "none"
       /\ \E x \in -MaxCursor .. MaxCursor, y \in -1 .. view.height :
             SetCursor(x, y)
    \/ /\ call.op \in {"none", "setCursor"}
       /\ \E str \in StringsUpTo(MaxText), on \in BOOLEAN : Text(str, on)

SpecText == InitText /\ [][NextText]_vars

---------------------------------------------------------------------------
(* Canvas::text() called several times on the same canvas *)

\* the number of text() calls in a row
MaxCalls == 2

\* strings over a character with a glyph, the two ink codes and the newline
InkStrings ==
    {str \in StringsUpTo(MaxText) :
        \A i \in 1 .. Len(str) : str[i] \in {CharA, CharNormal, CharInvert, CharNewline}}

InitInk ==
    \E v \in TextViews, auto \in BOOLEAN : StartCanvas(v, PatternBuf, FontTiny, auto)

NextInk ==
    /\ nops < MaxCalls
    /\ \E str \in InkStrings, on \in BOOLEAN : Text(str, on)

SpecInk == InitInk /\ [][NextInk]_vars

---------------------------------------------------------------------------
(* Canvas::splitHorizontally() and splitVertically() applied once; hist     *)
(* holds the frames of the children returned                                *)

RECURSIVE WeightsUpTo(_)
WeightsUpTo(n) ==
    IF n = 0 THEN {<<>>}
    ELSE LET shorter == WeightsUpTo(n - 1)
         IN  shorter \cup {Append(ws, w) : ws \in shorter, w \in 0 .. MaxWeight}

\* std::array<u8, N> weights for N from 1 to MaxSplit
SplitWeights == WeightsUpTo(MaxSplit) \ {<<>>}

SplitHorizontally(weights) ==
    /\ hist' = splitHorizontally(view, weights)
    /\ call' = [NoCall EXCEPT !.op = "splitHorizontally", !.seq = weights]
    /\ nops' = nops + 1
    /\ UNCHANGED <<buf, prev, view, root, acc, depth, res, ret, fault, canvasVars, last>>

SplitVertically(weights) ==
    /\ hist' = splitVertically(view, weights)
    /\ call' = [NoCall EXCEPT !.op = "splitVertically", !.seq = weights]
    /\ nops' = nops + 1
    /\ UNCHANGED <<buf, prev, view, root, acc, depth, res, ret, fault, canvasVars, last>>

\* the frames that are split: views inside the display at the offsets 0 and
\* MaxOff, the frame of a default-constructed canvas, and a frame of negative
\* size as the unchecked constructor accepts it
SplitViews ==
    {v \in ViewsUpTo(Stride, DisplayHeight) :
        v.offset_x \in {0, MaxOff} /\ v.offset_y \in {0, MaxOff}}
        \cup {FrameViewDefault, FrameViewCtor("buf", Stride, -MaxDim, -MaxDim, 0, 0)}

InitSplit == \E v \in SplitViews : Start(v, ZeroBuf)

NextSplit ==
    /\ nops = 0
    /\ \E weights \in SplitWeights :
          \/ SplitHorizontally(weights)
          \/ SplitVertically(weights)

SpecSplit == InitSplit /\ [][NextSplit]_vars

---------------------------------------------------------------------------
(* setPixel() and fill() through a parent view and a child view of it *)

\* the view a call is issued through: root is the parent, view its child
Through(via) == IF via = "parent" THEN root ELSE view

\* what each display pixel was last written, after a call that covers the
\* display pixels in covered and writes value
lastWritten(covered, value) ==
    [p \in DOMAIN last |-> IF p \in covered THEN value ELSE last[p]]

\* Through(via).setPixel(x, y, on)
SetPixelVia(via, x, y, on) ==
    LET v == Through(via)
        m == setPixel(v, Mem(buf), x, y, on)
        covered == IF inside(v, x, y)
                   THEN {<<v.offset_x + x, v.offset_y + y>>} ELSE {}
    IN  /\ buf' = m.buf
        /\ prev' = buf
        /\ fault' = IF m.fault = "none" THEN fault ELSE m.fault
        /\ call' = [NoCall EXCEPT !.op = "setPixel", !.x = x, !.y = y, !.on = on,
                                  !.via = via]
        /\ last' = lastWritten(covered, on)
        /\ nops' = nops + 1
        /\ UNCHANGED <<view, root, acc, depth, res, ret, hist, canvasVars>>

\* Through(via).fill(value)
FillVia(via, value) ==
    LET v == Through(via)
        m == fill(v, Mem(buf), value)
        covered == (v.offset_x .. v.offset_x + v.width - 1)
                       \X (v.offset_y .. v.offset_y + v.height - 1)
    IN  /\ buf' = m.buf
        /\ prev' = buf
        /\ fault' = IF m.fault = "none" THEN fault ELSE m.fault
        /\ call' = [NoCall EXCEPT !.op = "fill", !.on = value, !.via = via]
        /\ last' = lastWritten(covered, value)
        /\ nops' = nops + 1
        /\ UNCHANGED <<view, root, acc, depth, res, ret, hist, canvasVars>>

\* the parents: a view that crosses a page boundary away from the display's
\* edges, and one in the display's corner
AliasParents ==
    {create("buf", Stride, MaxDim, MaxDim, MaxOff, PageRows - 1).value,
     create("buf", Stride, MaxDim, MaxDim, 0, 0).value}

InitAlias == \E v \in AliasParents : Start(v, ZeroBuf)

\* the number of calls issued through a parent and its child
MaxWrites == 3

\* the child is taken by sub() once; then up to MaxWrites calls go through the
\* parent and the child in any order
NextAlias ==
    \/ /\ depth = 0
       /\ \E sw \in 1 .. MaxDim + 1, sh \in 1 .. MaxDim + 1,
             sx \in -1 .. MaxDim - 1, sy \in -1 .. MaxDim - 1 : Descend(sw, sh, sx, sy)
    \/ /\ depth = 1
       /\ nops < MaxWrites
       /\ \E via \in {"parent", "child"} :
             \/ \E x \in 0 .. Through(via).width - 1,
                   y \in 0 .. Through(via).height - 1, on \in BOOLEAN :
                       SetPixelVia(via, x, y, on)
             \/ \E value \in BOOLEAN : FillVia(via, value)

SpecAlias == InitAlias /\ [][NextAlias]_vars

---------------------------------------------------------------------------
(* What the claims read *)

\* the pixel (X, Y) of the display in buffer b, by the addressing model: page
\* Y div 8, column X, bit Y mod 8
DisplayBit(b, X, Y) == Bit(b[(Y \div PageRows) * Stride + X], Y % PageRows) = 1

DisplayXs == 0 .. Stride - 1
DisplayYs == 0 .. DisplayHeight - 1

\* the display pixel (X, Y) lies in the rectangle of view v
InRect(v, X, Y) ==
    /\ v.offset_x <= X
    /\ X < v.offset_x + v.width
    /\ v.offset_y <= Y
    /\ Y < v.offset_y + v.height

\* setPixel(x, y, value) for every (x, y) of the view, pixel k = y * width + x on
RECURSIVE setPixelAll(_, _, _, _)
setPixelAll(v, m, value, k) ==
    IF k >= v.width * v.height THEN m
    ELSE setPixelAll(v, setPixel(v, m, k % v.width, k \div v.width, value), value, k + 1)

---------------------------------------------------------------------------
(* C1: create() with a null buffer returns the error BufferNotInit, whatever
   the other arguments, and a view create() returns has a buffer. *)
C1_CreateNullBuffer ==
    call.op = "create" =>
        /\ call.buffer = "nullptr" => (~res.ok /\ res.error = "BufferNotInit")
        /\ res.ok => res.value.buffer # "nullptr"

C1_Witness ==
    /\ call.op = "create"
    /\ call.buffer = "nullptr"
    /\ call.w >= 1
    /\ call.h >= 1
    /\ res.error = "BufferNotInit"

(* C2 as stated: create() with width = 0 or height = 0 fails with SizeTooSmall
   regardless of every other argument, a null buffer included. *)
C2_SizeTooSmallAlways ==
    (call.op = "create" /\ (call.w = 0 \/ call.h = 0)) =>
        (~res.ok /\ res.error = "SizeTooSmall")

(* C2: create() with width = 0 or height = 0 fails: with SizeTooSmall when the
   buffer is not null, regardless of stride, the other dimension and the
   offsets, and with BufferNotInit when the buffer is null. *)
C2_SizeTooSmallWithBuffer ==
    (call.op = "create" /\ (call.w = 0 \/ call.h = 0)) =>
        /\ ~res.ok
        /\ res.error = IF call.buffer = "nullptr" THEN "BufferNotInit" ELSE "SizeTooSmall"

C2_Witness ==
    /\ call.op = "create"
    /\ call.buffer = "buf"
    /\ call.w = 0
    /\ call.h >= 1
    /\ res.error = "SizeTooSmall"

(* C3: sub(sw, sh, sx, sy) returns OffsetOutOfBounds if sx >= width or
   sy >= height; otherwise SizeTooLarge if sw > width - sx or sh > height - sy;
   otherwise the result of create() with the offsets (offset_x + sx,
   offset_y + sy) and the size (sw, sh), which on a view that has a buffer is
   SizeTooSmall when sw < 1 or sh < 1 and the child view otherwise.  On a
   MaxDim x MaxDim view sub(MaxDim + 1, MaxDim, 0, 0) is SizeTooLarge and
   sub(1, 1, MaxDim, 0) is OffsetOutOfBounds. *)
C3_SubErrors ==
    call.op = "sub" =>
        LET sw == call.w
            sh == call.h
            sx == call.x
            sy == call.y
            offsetOut == sx >= view.width \/ sy >= view.height
            tooLarge == sw > view.width - sx \/ sh > view.height - sy
        IN  /\ offsetOut => (~res.ok /\ res.error = "OffsetOutOfBounds")
            /\ (~offsetOut /\ tooLarge) => (~res.ok /\ res.error = "SizeTooLarge")
            /\ (~offsetOut /\ ~tooLarge) =>
                  res = create(view.buffer, view.stride, sw, sh,
                               view.offset_x + sx, view.offset_y + sy)
            /\ (~offsetOut /\ ~tooLarge /\ view.buffer = "buf") =>
                  IF sw < 1 \/ sh < 1
                  THEN ~res.ok /\ res.error = "SizeTooSmall"
                  ELSE /\ res.ok
                       /\ res.value = FrameViewCtor("buf", view.stride, sw, sh,
                                                    view.offset_x + sx, view.offset_y + sy)
            /\ (view.width = MaxDim /\ view.height = MaxDim) =>
                  /\ (sw = MaxDim + 1 /\ sh = MaxDim /\ sx = 0 /\ sy = 0) =>
                        res.error = "SizeTooLarge"
                  /\ (sw = 1 /\ sh = 1 /\ sx = MaxDim /\ sy = 0) =>
                        res.error = "OffsetOutOfBounds"

\* an offset error together with a size error, on a view that has a buffer
C3_Witness ==
    /\ call.op = "sub"
    /\ view.buffer = "buf"
    /\ view.width = MaxDim
    /\ view.height = MaxDim
    /\ call.x = MaxDim
    /\ call.w = MaxDim + 1
    /\ res.error = "OffsetOutOfBounds"

(* C4: a chain of successful sub() calls from a view yields the view that one
   direct sub() call on the first view yields, given the size of the last call
   and the sums of the sub-offsets: the direct call succeeds, and its view has
   the same buffer, stride, offsets and size, so that both address the same
   byte and bit for every (x, y). *)
C4_SubAssociative ==
    depth >= 1 =>
        LET direct == sub(root, view.width, view.height, acc[1], acc[2])
        IN  /\ direct.ok
            /\ direct.value = view
            /\ \A x \in 0 .. view.width - 1, y \in 0 .. view.height - 1 :
                  /\ getByteIndex(direct.value, x, y) = getByteIndex(view, x, y)
                  /\ getBitMask(direct.value, y) = getBitMask(view, y)

C4_Witness ==
    /\ depth >= 2
    /\ root.offset_x > 0
    /\ acc[1] > 0
    /\ acc[2] > 0
    /\ view.offset_x = root.offset_x + acc[1]

(* C5: on a zero-initialized buffer, for a view inside the display and an
   in-bounds (x, y), setPixel(x, y, true) followed by getPixel(x, y) returns
   true and a following setPixel(x, y, false) followed by getPixel(x, y)
   returns false; more generally every getPixel(x, y) returns the value the
   setPixel(x, y, .) before it wrote. *)
C5_PixelRoundTrip ==
    /\ \A i \in 2 .. Len(hist) :
          (hist[i].op = "getPixel" /\ hist[i - 1].op = "setPixel") =>
              hist[i].ret = hist[i - 1].on
    /\ (Len(hist) >= 2 /\ hist[1].op = "setPixel" /\ hist[1].on) => hist[2].ret
    /\ (Len(hist) >= 4 /\ hist[1].op = "setPixel" /\ hist[1].on
            /\ hist[3].op = "setPixel" /\ ~hist[3].on) => ~hist[4].ret

C5_Witness ==
    /\ Len(hist) = 4
    /\ hist[1].op = "setPixel" /\ hist[1].on
    /\ hist[2].op = "getPixel" /\ hist[2].ret
    /\ hist[3].op = "setPixel" /\ ~hist[3].on
    /\ hist[4].op = "getPixel" /\ ~hist[4].ret
    /\ (view.offset_y + call.y) % PageRows # 0
    /\ view.offset_y + call.y > PageRows
    /\ call.x > 0

(* C6: setPixel(x, y, on) changes at most one bit of the buffer.  For an
   in-bounds (x, y) every bit other than bit (offset_y + y) & 7 of byte
   ((offset_y + y) >> 3) * stride + offset_x + x is unchanged, and that bit is
   on afterwards when the byte is a byte of the view's buffer; for an (x, y)
   outside the view the whole buffer is unchanged and getPixel returns false. *)
C6_SetPixelOneBit ==
    LET x == call.x
        y == call.y
        index == ((view.offset_y + y) \div 8) * view.stride + view.offset_x + x
        bit == (view.offset_y + y) % 8
        inBounds == 0 <= x /\ x < view.width /\ 0 <= y /\ y < view.height
    IN  /\ (call.op = "setPixel" /\ inBounds) =>
              /\ \A i \in 0 .. BufLen - 1, k \in 0 .. 7 :
                    (i # index \/ k # bit) => Bit(buf[i], k) = Bit(prev[i], k)
              /\ (view.buffer = "buf" /\ index \in 0 .. BufLen - 1) =>
                    Bit(buf[index], bit) = (IF call.on THEN 1 ELSE 0)
        /\ (call.op = "setPixel" /\ ~inBounds) =>
              (buf = prev /\ getPixel(view, buf, x, y) = {FALSE})
        /\ (call.op = "getPixel" /\ ~inBounds) => (buf = prev /\ ret = FALSE)

\* a bit is cleared in a byte whose other bits are on
C6_Witness ==
    /\ call.op = "setPixel"
    /\ ~call.on
    /\ inside(view, call.x, call.y)
    /\ WellFormed(view)
    /\ prev = OnesBuf
    /\ buf # prev
    /\ (view.offset_y + call.y) % PageRows # 0

(* C7 as stated: on a view whose buffer is null, getPixel returns false and
   neither getPixel nor setPixel accesses the buffer. *)
C7_NullViewNoAccess ==
    view.buffer = "nullptr" =>
        /\ call.op = "getPixel" => (ret = FALSE /\ fault = "none")
        /\ call.op = "setPixel" => (fault = "none" /\ buf = prev)

(* C8: for every view inside the display and every initial buffer content,
   the buffer after fill(value) is bit for bit the buffer after setPixel(x, y,
   value) for every (x, y) of the view: every pixel of the view's rectangle
   has the value and no bit outside the rectangle changes, whatever the
   alignment of offset_y and height to the pages. *)
C8_FillEqualsSetPixel ==
    (call.op = "fill" /\ WellFormed(view)) =>
        /\ buf = setPixelAll(view, Mem(prev), call.on, 0).buf
        /\ \A X \in DisplayXs, Y \in DisplayYs :
              DisplayBit(buf, X, Y) =
                  IF InRect(view, X, Y) THEN call.on ELSE DisplayBit(prev, X, Y)

\* a view of several pages that starts and ends inside a page
C8_Witness ==
    /\ call.op = "fill"
    /\ WellFormed(view)
    /\ view.offset_y % PageRows # 0
    /\ (view.offset_y + view.height) % PageRows # 0
    /\ view.height > PageRows
    /\ view.offset_x > 0
    /\ prev = PatternBuf
    /\ buf # prev

\* bit by of column bx of a bitmap: bit (by & 7) of byte (by >> 3) * W + bx
SourceBit(bitmap, bx, by) ==
    Bit(bitmap.buffer[(by \div 8) * bitmap.W + bx + 1], by % 8) = 1

(* C9: drawBitmap(x, y, bitmap, true) into a view inside the display, on a
   zero-initialized buffer, reproduces the source: for every (bx, by) of the
   bitmap whose destination (x + bx, y + by) lies inside the view, getPixel(x +
   bx, y + by) is source bit (by & 7) of byte (by >> 3) * W + bx, for every
   vertical offset y, and no bit outside the view's rectangle changes. *)
C9_DrawBitmapExact ==
    (call.op = "drawBitmap" /\ call.on /\ prev = ZeroBuf /\ WellFormed(view)) =>
        /\ \A bx \in 0 .. call.bitmap.W - 1, by \in 0 .. call.bitmap.H - 1 :
              inside(view, call.x + bx, call.y + by) =>
                  getPixel(view, buf, call.x + bx, call.y + by)
                      = {SourceBit(call.bitmap, bx, by)}
        /\ \A X \in DisplayXs, Y \in DisplayYs :
              ~InRect(view, X, Y) => DisplayBit(buf, X, Y) = DisplayBit(prev, X, Y)

\* a bitmap of two pages at y = 3 in a view of the full height: bytes of the
\* physical pages 0, 1 and 2 are written
C9_Witness ==
    /\ call.op = "drawBitmap"
    /\ call.on
    /\ prev = ZeroBuf
    /\ WellFormed(view)
    /\ view.offset_y = 0
    /\ view.height = DisplayHeight
    /\ call.bitmap.H = 16
    /\ call.y = 3
    /\ call.x = 0
    /\ buf[0 * Stride + view.offset_x] # 0
    /\ buf[1 * Stride + view.offset_x] # 0
    /\ buf[2 * Stride + view.offset_x] # 0

(* C10: rect(x0, y0, x1, y1, mode) on a canvas whose frame lies inside the
   display, with both corners inside the frame and given in either order: in
   Fill mode it sets exactly the pixels with min(x0, x1) <= x <= max(x0, x1)
   and min(y0, y1) <= y <= max(y0, y1) and changes no other pixel; in Clear
   mode it clears exactly the same pixels.  Bit 0 of the mode selects fill or
   border and bit 1 selects set or clear: in the two modes without bit 0 only
   pixels of the outline of that rectangle are written, with the value of
   bit 1, and the pixels inside the outline are unchanged. *)
C10_RectFill ==
    LET xa == Min(call.x, call.x1)
        xb == Max(call.x, call.x1)
        ya == Min(call.y, call.y1)
        yb == Max(call.y, call.y1)
        inRect(X, Y) ==
            /\ xa <= X - view.offset_x /\ X - view.offset_x <= xb
            /\ ya <= Y - view.offset_y /\ Y - view.offset_y <= yb
        onOutline(X, Y) ==
            /\ inRect(X, Y)
            /\ \/ X - view.offset_x \in {xa, xb}
               \/ Y - view.offset_y \in {ya, yb}
        bit0 == call.mode % 2 = 1
        bit1 == (call.mode \div 2) % 2 = 1
    IN  (/\ call.op = "rect"
         /\ WellFormed(view)
         /\ inside(view, call.x, call.y)
         /\ inside(view, call.x1, call.y1)) =>
            /\ call.mode = ModeFill => (bit0 /\ bit1)
            /\ call.mode = ModeClear => (bit0 /\ ~bit1)
            /\ \A X \in DisplayXs, Y \in DisplayYs :
                  DisplayBit(buf, X, Y) =
                      IF (IF bit0 THEN inRect(X, Y) ELSE onOutline(X, Y))
                      THEN bit1
                      ELSE DisplayBit(prev, X, Y)

\* a filled rectangle given by its lower right and upper left corner, over a
\* page border, in a frame that is a window of the display
C10_Witness ==
    /\ call.op = "rect"
    /\ call.mode = ModeFill
    /\ WellFormed(view)
    /\ view.offset_x > 0
    /\ inside(view, call.x, call.y)
    /\ inside(view, call.x1, call.y1)
    /\ call.x > call.x1
    /\ call.y > call.y1 + 1
    /\ (view.offset_y + call.y1) \div PageRows < (view.offset_y + call.y) \div PageRows
    /\ prev = PatternBuf
    /\ buf # prev

\* the number of setPixel(x, y, .) calls in a log
Writes(log, x, y) == Cardinality({i \in 1 .. Len(log) : log[i].x = x /\ log[i].y = y})

(* C11 as stated: rect() in a border mode (FillBorder, ClearBorder) calls
   setPixel for exactly the pixels of the 1-pixel outline of the normalized
   rectangle, with the value of the mode, and for each of the four corner
   pixels exactly once, for every rectangle, degenerate ones (y0 = y1 or
   x0 = x1) included. *)
C11_BorderCornersOnce ==
    LET xa == Min(call.x, call.x1)
        xb == Max(call.x, call.x1)
        ya == Min(call.y, call.y1)
        yb == Max(call.y, call.y1)
        outline == {<<x, y>> \in (xa .. xb) \X (ya .. yb) :
                        x \in {xa, xb} \/ y \in {ya, yb}}
    IN  (call.op = "rect" /\ ~isFillMode(call.mode)) =>
            /\ {<<hist[i].x, hist[i].y>> : i \in 1 .. Len(hist)} = outline
            /\ \A i \in 1 .. Len(hist) : hist[i].on = getModeValue(call.mode)
            /\ \A x \in {xa, xb}, y \in {ya, yb} : Writes(hist, x, y) = 1

(* C12 as stated: on a canvas whose frame is a proper sub-region of the
   display, rect() in Fill or Clear mode with a rectangle that extends past an
   edge of the frame changes exactly the pixels of the rectangle that lie
   inside the frame, and no bit of the buffer outside the frame's rectangle. *)
C12_RectClipsToFrame ==
    LET xa == Min(call.x, call.x1)
        xb == Max(call.x, call.x1)
        ya == Min(call.y, call.y1)
        yb == Max(call.y, call.y1)
        inRect(X, Y) ==
            /\ xa <= X - view.offset_x /\ X - view.offset_x <= xb
            /\ ya <= Y - view.offset_y /\ Y - view.offset_y <= yb
    IN  (/\ call.op = "rect"
         /\ isFillMode(call.mode)
         /\ WellFormed(view)
         /\ view.width * view.height < Stride * DisplayHeight
         /\ ~(inside(view, call.x, call.y) /\ inside(view, call.x1, call.y1))) =>
            \A X \in DisplayXs, Y \in DisplayYs :
                DisplayBit(buf, X, Y) =
                    IF InRect(view, X, Y) /\ inRect(X, Y)
                    THEN getModeValue(call.mode)
                    ELSE DisplayBit(prev, X, Y)

\* the pixels a log calls setPixel for
Plotted(log) == {<<log[i].x, log[i].y>> : i \in 1 .. Len(log)}

(* C13: the set of pixels circle(cx, cy, r, mode) calls setPixel for in a
   border mode is closed under the 8 reflections about the centre, for every
   r >= 0 and every centre: with (cx + dx, cy + dy) it contains (cx +- dx,
   cy +- dy) and (cx +- dy, cy +- dx). *)
C13_CircleSymmetric ==
    (call.op = "circle" /\ ~isFillMode(call.mode) /\ call.w >= 0) =>
        \A p \in Plotted(hist) :
            LET dx == p[1] - call.x
                dy == p[2] - call.y
            IN  \A sx \in {-1, 1}, sy \in {-1, 1} :
                    /\ <<call.x + sx * dx, call.y + sy * dy>> \in Plotted(hist)
                    /\ <<call.x + sx * dy, call.y + sy * dx>> \in Plotted(hist)

\* a circle with a plotted point off the axes and off the diagonals
C13_Witness ==
    /\ call.op = "circle"
    /\ call.mode = ModeFillBorder
    /\ call.w >= 2
    /\ \E p \in Plotted(hist) :
          LET dx == p[1] - call.x
              dy == p[2] - call.y
          IN  dx > 0 /\ dy > 0 /\ dx # dy
    /\ buf # prev

(* C14 as stated: circle(cx, cy, 0, FillBorder) calls setPixel for exactly one
   pixel, the centre (cx, cy). *)
C14_CircleRadiusZero ==
    (call.op = "circle" /\ call.mode = ModeFillBorder /\ call.w = 0) =>
        Plotted(hist) = {<<call.x, call.y>>}

\* character c is one text() draws a glyph for
Ordinary(c) == c \notin {CharNormal, CharInvert, CharCenter, CharNewline, CharTab}

(* C15: for every ordinary character text() renders, cursor_x afterwards is
   the x at which its glyph was drawn plus glyph_width + 1 and cursor_y is the
   row the glyph was drawn in, whether or not the separator column was drawn;
   a run of n ordinary characters that fits on the line, each glyph starting
   at a cursor_x <= width - glyph_width, moves cursor_x by
   n * (glyph_width + 1) and leaves cursor_y unchanged. *)
C15_CursorAdvance ==
    call.op = "text" =>
        LET gw == current_font.glyph_width
            run == \A i \in 1 .. Len(hist) :
                       /\ Ordinary(hist[i].c)
                       /\ hist[i].drawn
                       /\ hist[i].x0 <= view.width - gw
        IN  /\ \A i \in 1 .. Len(hist) :
                  (Ordinary(hist[i].c) /\ hist[i].drawn) =>
                      /\ hist[i].x1 = hist[i].gx + gw + 1
                      /\ hist[i].y1 = hist[i].gy
                      /\ (hist[i].x0 <= view.width - gw) =>
                            (hist[i].gx = hist[i].x0 /\ hist[i].y1 = hist[i].y0)
            /\ run => (cursor_x = call.x + Len(hist) * (gw + 1) /\ cursor_y = call.y)

\* two glyphs on one line, the first with its separator column and the second,
\* in the last column of the frame, without
C15_Witness ==
    /\ call.op = "text"
    /\ Len(hist) = 2
    /\ hist[1].c = CharA /\ hist[1].drawn
    /\ hist[2].c = CharA /\ hist[2].drawn
    /\ hist[1].x1 < view.width
    /\ hist[2].x0 + current_font.glyph_width = view.width
    /\ cursor_x = call.x + 2 * (current_font.glyph_width + 1)
    /\ buf # prev

(* C16 as stated: after text() processes a tab, cursor_x is a multiple of the
   tab width 4 * (glyph_width + 1), is strictly greater than before and is the
   smallest such multiple, for every starting cursor_x, negative ones and ones
   beyond the frame included; cursor_y is unchanged. *)
C16_TabNextMultiple ==
    call.op = "text" =>
        LET tab == 4 * (current_font.glyph_width + 1)
        IN  \A i \in 1 .. Len(hist) :
                hist[i].c = CharTab =>
                    /\ hist[i].x1 % tab = 0
                    /\ hist[i].x1 > hist[i].x0
                    /\ hist[i].x1 - tab <= hist[i].x0
                    /\ hist[i].y1 = hist[i].y0

(* C17: after text() processes a newline, cursor_x is 0 and cursor_y has
   increased by exactly glyph_height + 1, for every cursor position and ink;
   and every pixel of the frame in the columns from the old cursor_x to the
   right edge and in the rows of the current line, cursor_y to cursor_y +
   glyph_height, has the inverse of the ink current at the newline. *)
C17_Newline ==
    call.op = "text" =>
        \A i \in 1 .. Len(hist) :
            hist[i].c = CharNewline =>
                /\ hist[i].x1 = 0
                /\ hist[i].y1 = hist[i].y0 + current_font.glyph_height + 1
                /\ \A X \in DisplayXs, Y \in DisplayYs :
                      (/\ InRect(view, X, Y)
                       /\ X - view.offset_x >= hist[i].x0
                       /\ Y - view.offset_y >= hist[i].y0
                       /\ Y - view.offset_y <= hist[i].y0 + current_font.glyph_height) =>
                          DisplayBit(hist[i].after, X, Y) = ~hist[i].on0

\* a newline after an ink switch, with the cursor inside the frame, that
\* changes the buffer
C17_Witness ==
    /\ call.op = "text"
    /\ call.on
    /\ Len(hist) = 2
    /\ hist[1].c = CharInvert
    /\ hist[2].c = CharNewline
    /\ hist[2].x0 > 0
    /\ hist[2].x0 < view.width - 1
    /\ hist[2].y0 > 0
    /\ hist[2].y0 + current_font.glyph_height < view.height
    /\ hist[2].after # hist[2].before
    /\ cursor_x = 0

\* the sum of the first n elements of a sequence of numbers
RECURSIVE Sum(_, _)
Sum(seq, n) == IF n = 0 THEN 0 ELSE Sum(seq, n - 1) + seq[n]

\* the sizes a split gave its children
SplitSizes ==
    [i \in 1 .. Len(hist) |->
        IF call.op = "splitHorizontally" THEN hist[i].width ELSE hist[i].height]

\* the size a split divided
SplitTotal == IF call.op = "splitHorizontally" THEN view.width ELSE view.height

(* C18: for every total size (a width or height, so not negative) and every
   array of N >= 1 weights, a weight of 0 counted as 1, calculateSplitSizes
   returns N sizes whose sum is total_size; size i is floor(total_size * w_i /
   sum(w)), plus 1 if i is below the truncation remainder (total_size minus
   the sum of the floors) and plus 0 otherwise. *)
C18_SplitSizes ==
    (call.op \in {"splitHorizontally", "splitVertically"} /\ SplitTotal >= 0) =>
        LET N == Len(call.seq)
            w == [i \in 1 .. N |-> IF call.seq[i] = 0 THEN 1 ELSE call.seq[i]]
            floors == [i \in 1 .. N |-> (SplitTotal * w[i]) \div Sum(w, N)]
            remainder == SplitTotal - Sum(floors, N)
        IN  /\ Len(hist) = N
            /\ Sum(SplitSizes, N) = SplitTotal
            /\ \A i \in 1 .. N :
                  SplitSizes[i] = floors[i] + (IF i - 1 < remainder THEN 1 ELSE 0)

\* a split with a weight of 0 and a remainder that some but not all children get
C18_Witness ==
    /\ call.op = "splitVertically"
    /\ Len(call.seq) = 3
    /\ call.seq[1] = 0
    /\ call.seq[2] > 1
    /\ SplitSizes[1] = view.height \div (Sum(call.seq, 3) + 1) + 1
    /\ SplitSizes[3] = (view.height * call.seq[3]) \div (Sum(call.seq, 3) + 1)
    /\ SplitSizes[3] > 0

(* C19: the N children splitHorizontally (resp. splitVertically) returns for
   a frame inside the display are adjacent, do not overlap and exactly cover
   the parent: child 0 starts at relative offset 0, child i + 1 starts where
   child i ends, the last child ends at the parent's width (resp. height),
   every child spans the parent's full height (resp. width), no child extends
   outside the parent's frame, and every pixel of the parent lies in exactly
   one child. *)
C19_SplitCovers ==
    (call.op \in {"splitHorizontally", "splitVertically"} /\ WellFormed(view)) =>
        LET N == Len(hist)
            horizontal == call.op = "splitHorizontally"
            start(c) == IF horizontal THEN c.offset_x - view.offset_x
                        ELSE c.offset_y - view.offset_y
            size(c) == IF horizontal THEN c.width ELSE c.height
        IN  /\ N = Len(call.seq)
            /\ start(hist[1]) = 0
            /\ \A i \in 1 .. N - 1 : start(hist[i + 1]) = start(hist[i]) + size(hist[i])
            /\ start(hist[N]) + size(hist[N]) = SplitTotal
            /\ \A i \in 1 .. N :
                  /\ hist[i].buffer = view.buffer
                  /\ hist[i].stride = view.stride
                  /\ size(hist[i]) >= 0
                  /\ IF horizontal
                     THEN hist[i].offset_y = view.offset_y /\ hist[i].height = view.height
                     ELSE hist[i].offset_x = view.offset_x /\ hist[i].width = view.width
                  /\ hist[i].offset_x >= view.offset_x
                  /\ hist[i].offset_x + hist[i].width <= view.offset_x + view.width
                  /\ hist[i].offset_y >= view.offset_y
                  /\ hist[i].offset_y + hist[i].height <= view.offset_y + view.height
            /\ \A X \in DisplayXs, Y \in DisplayYs :
                  Cardinality({i \in 1 .. N : InRect(hist[i], X, Y)})
                      = IF InRect(view, X, Y) THEN 1 ELSE 0

\* three children of different sizes of a frame that is a window of the display
C19_Witness ==
    /\ call.op = "splitVertically"
    /\ WellFormed(view)
    /\ view.offset_x > 0
    /\ view.offset_y > 0
    /\ Len(hist) = 3
    /\ hist[1].height > hist[2].height
    /\ hist[2].height > hist[3].height
    /\ hist[3].height > 0
    /\ hist[3].offset_y = hist[2].offset_y + hist[2].height

---------------------------------------------------------------------------
(* C20: after any sequence of setPixel() / fill() calls issued through a
   parent view and through a child that sub() returned, child.getPixel(x, y)
   equals parent.getPixel(sx + x, sy + y) for every (x, y) inside the child,
   (sx, sy) being the child's offset relative to the parent, and the value is
   the one written by the most recent call that covered the pixel *)
C20_AliasConsistent ==
    depth = 1 =>
        \A x \in 0 .. view.width - 1, y \in 0 .. view.height - 1 :
            LET child == getPixel(view, buf, x, y)
                parent == getPixel(root, buf, acc[1] + x, acc[2] + y)
                abs == <<view.offset_x + x, view.offset_y + y>>
            IN  /\ child = parent
                /\ abs \in DOMAIN last => child = {last[abs]}

---------------------------------------------------------------------------
\* what line() did in the call of the current state
LineDrawn == line(view, Mem(prev), call.x, call.y, call.x1, call.y1, call.on)

\* record i of a log is the call setPixel(x, y, .)
PlotsAt(log, i, x, y) == i \in 1 .. Len(log) /\ log[i].x = x /\ log[i].y = y

(* C21: line() terminates for every pair of endpoints, plots (x0, y0) first
   and (x1, y1) last, and in the general case (x0 # x1 and y0 # y1) leaves its
   loop only at the combined test, both coordinates being at the target: the
   inner breaks on x0 == x1 and on y0 == y1 are not taken. *)
C21_LineReachesTarget ==
    call.op = "line" =>
        /\ LineDrawn.exit # "open"
        /\ PlotsAt(hist, 1, call.x, call.y)
        /\ PlotsAt(hist, Len(hist), call.x1, call.y1)
        /\ (call.x # call.x1 /\ call.y # call.y1) => LineDrawn.exit = "target"

---------------------------------------------------------------------------
\* bit `bit` of column `col` of the glyph of character c is set
GlyphLit(font, c, col, bit) == Bit(getGlyph(font, c).bytes[col], bit) = 1

\* the pixel (x, y) of the frame in buffer b
FrameBit(b, x, y) == DisplayBit(b, view.offset_x + x, view.offset_y + y)

\* the coordinates of the frame's pixels
FrameXs == 0 .. view.width - 1
FrameYs == 0 .. view.height - 1

(* C22: when text() reaches an ordinary character with cursor_x > width -
   glyph_width, the rest of the line (the frame's pixels from cursor_x to the
   right edge, rows cursor_y .. cursor_y + glyph_height) gets the inverse of
   the ink. With auto_next_line unset text() then returns: the character is
   the last one processed, no glyph is drawn, the rows outside the line keep
   their pixels, and the cursor and the buffer at the end of the call are
   those at that moment. With auto_next_line set the cursor goes to x = 0 of
   the next line (cursor_y + glyph_height + 1), where the glyph is drawn and
   the cursor advances by glyph_width + 1, unless that row is beyond height -
   glyph_height. Whenever cursor_y > height - glyph_height at an ordinary
   character, text() returns without drawing its glyph. *)
C22_LineOverflow ==
    call.op = "text" =>
        \A i \in 1 .. Len(hist) :
            LET s == hist[i]
                gw == current_font.glyph_width
                gh == current_font.glyph_height
                over == s.x0 > view.width - gw
                nextY == s.y0 + gh + 1
                stops == /\ s.done
                         /\ ~s.drawn
                         /\ i = Len(hist)
                         /\ cursor_x = s.x1
                         /\ cursor_y = s.y1
                         /\ buf = s.after
            IN  Ordinary(s.c) =>
                  /\ over =>
                        \A x \in FrameXs, y \in FrameYs :
                            (x >= s.x0 /\ y >= s.y0 /\ y <= s.y0 + gh) =>
                                FrameBit(s.after, x, y) = ~s.on0
                  /\ (over /\ ~auto_next_line) =>
                        /\ stops
                        /\ s.x1 = s.x0
                        /\ s.y1 = s.y0
                        /\ \A x \in FrameXs, y \in FrameYs :
                              (y < s.y0 \/ y > s.y0 + gh) =>
                                  FrameBit(s.after, x, y) = FrameBit(s.before, x, y)
                  /\ (over /\ auto_next_line /\ nextY <= view.height - gh) =>
                        /\ s.drawn
                        /\ s.gx = 0
                        /\ s.gy = nextY
                        /\ s.x1 = gw + 1
                        /\ s.y1 = nextY
                        /\ ~getGlyph(current_font, s.c).null =>
                              \A col \in 0 .. gw - 1, bit \in 0 .. gh - 1 :
                                  (col \in FrameXs /\ nextY + bit \in FrameYs) =>
                                      FrameBit(s.after, col, nextY + bit)
                                          = (GlyphLit(current_font, s.c, col, bit) = s.on0)
                  /\ (over /\ auto_next_line /\ nextY > view.height - gh) =>
                        /\ stops
                        /\ s.x1 = 0
                        /\ s.y1 = nextY
                  /\ s.y0 > view.height - gh => stops

\* with auto_next_line unset, an ordinary character beyond the last glyph
\* position, on a line inside the frame, stops text() and the newline after it
\* is not processed
C22_Witness ==
    /\ call.op = "text"
    /\ ~auto_next_line
    /\ Len(call.seq) = 2
    /\ call.seq[2] = CharNewline
    /\ Len(hist) = 1
    /\ Ordinary(hist[1].c)
    /\ hist[1].x0 = view.width - current_font.glyph_width + 1
    /\ hist[1].x0 < view.width
    /\ hist[1].y0 >= 0
    /\ hist[1].y0 + current_font.glyph_height < view.height
    /\ hist[1].after # hist[1].before
    /\ cursor_x = hist[1].x0
    /\ cursor_y = hist[1].y0

---------------------------------------------------------------------------
\* the setPixel() calls drawGlyph() made for the character of step s of text()
GlyphLog(s) ==
    drawGlyph(view, current_font, Mem(s.before), s.gx, s.gy,
              getGlyph(current_font, s.c), s.on0).log

(* C23: rendering one glyph at (cursor_x, cursor_y) writes only pixels in rows
   cursor_y .. cursor_y + glyph_height - 1 and columns cursor_x .. cursor_x +
   glyph_width - 1; the row cursor_y + glyph_height is not touched by the
   glyph. *)
C23_GlyphRows ==
    call.op = "text" =>
        \A i \in 1 .. Len(hist) :
            hist[i].drawn =>
                \A k \in 1 .. Len(GlyphLog(hist[i])) :
                    LET p == GlyphLog(hist[i])[k]
                    IN  /\ p.x >= hist[i].gx
                        /\ p.x <= hist[i].gx + current_font.glyph_width - 1
                        /\ p.y >= hist[i].gy
                        /\ p.y <= hist[i].gy + current_font.glyph_height - 1

---------------------------------------------------------------------------
(* C24: text() never changes a bit of the buffer outside the rectangle of the
   canvas's frame, for every string, font, ink, auto_next_line setting and
   starting cursor. *)
C24_TextInsideFrame ==
    call.op = "text" =>
        \A X \in DisplayXs, Y \in DisplayYs :
            ~InRect(view, X, Y) => DisplayBit(buf, X, Y) = DisplayBit(prev, X, Y)

---------------------------------------------------------------------------
(* C25: the ink of text() is a two-state machine {Normal, Inverted}. Each
   text() call starts in the state its argument `on` gives, whatever the
   state the call before ended in, and at the cursor the call before left;
   0x80 switches to Normal and 0x81 to Inverted, each drawing nothing and
   leaving the cursor; every other character keeps the state; the glyph
   drawn for a character has its set bits in the current ink, the separator
   column after it has the inverse, and the line a newline clears has the
   inverse. *)
C25_InkState ==
    call.op = "text" =>
        \A i \in call.first .. Len(hist) :
            LET s == hist[i]
                gw == current_font.glyph_width
                gh == current_font.glyph_height
            IN  /\ i = call.first => (s.on0 = call.on /\ s.x0 = call.x /\ s.y0 = call.y)
                /\ (i = call.first /\ i > 1) =>
                      (s.x0 = hist[i - 1].x1 /\ s.y0 = hist[i - 1].y1)
                /\ i > call.first => s.on0 = hist[i - 1].on
                /\ s.c \in {CharNormal, CharInvert} =>
                      /\ s.on = (s.c = CharNormal)
                      /\ s.after = s.before
                      /\ s.x1 = s.x0
                      /\ s.y1 = s.y0
                /\ s.c \notin {CharNormal, CharInvert} => s.on = s.on0
                /\ (s.drawn /\ ~getGlyph(current_font, s.c).null) =>
                      \A x \in FrameXs, y \in FrameYs :
                          /\ (x - s.gx \in 0 .. gw - 1 /\ y - s.gy \in 0 .. gh - 1) =>
                                FrameBit(s.after, x, y)
                                    = (GlyphLit(current_font, s.c, x - s.gx, y - s.gy) = s.on0)
                          /\ (x = s.gx + gw /\ y - s.gy \in 0 .. gh) =>
                                FrameBit(s.after, x, y) = ~s.on0
                /\ s.c = CharNewline =>
                      \A x \in FrameXs, y \in FrameYs :
                          (x >= s.x0 /\ y - s.y0 \in 0 .. gh) =>
                              FrameBit(s.after, x, y) = ~s.on0

\* a second text() call that starts Normal, at the cursor the first call left,
\* after the first call ended Inverted; it switches to Inverted and draws a
\* glyph
C25_Witness ==
    /\ call.op = "text"
    /\ nops = 2
    /\ call.first > 1
    /\ ~hist[call.first - 1].on
    /\ call.on
    /\ call.x > 0
    /\ Len(hist) = call.first + 1
    /\ hist[call.first].c = CharInvert
    /\ hist[call.first].on0
    /\ hist[call.first + 1].drawn
    /\ ~hist[call.first + 1].on0
    /\ hist[call.first + 1].after # hist[call.first + 1].before

---------------------------------------------------------------------------
(* C26: every view the checked sub() returns lies inside its parent: 0 <=
   sub_offset_x, 0 <= sub_offset_y, sub_offset_x + sub_width <= width and
   sub_offset_y + sub_height <= height of the parent; a negative sub-offset
   is rejected. *)
C26_SubInsideParent ==
    (call.op = "sub" /\ res.ok) =>
        /\ call.x >= 0
        /\ call.y >= 0
        /\ call.x + call.w <= view.width
        /\ call.y + call.h <= view.height

---------------------------------------------------------------------------
(* C27: through a view that lies inside the display (the root view over the
   buffer, or a descendant by sub() with offsets >= 0), every byte index that
   drawBitmap() reads or writes lies inside the buffer, for every position of
   the bitmap: partly above the top row, partly below the bottom row, at a
   row that is not a multiple of 8 on the last page. *)
C27_DrawBitmapInBuffer ==
    (call.op = "drawBitmap" /\ WellFormed(view)) => fault = "none"

---------------------------------------------------------------------------
(* C28: every child that splitHorizontally() / splitVertically() returns has
   width >= 1 and height >= 1 whenever the parent has, for every N >= 1 and
   every array of weights, a total size smaller than N included. *)
C28_SplitChildrenNotEmpty ==
    (call.op \in {"splitHorizontally", "splitVertically"} /\ WellFormed(view)) =>
        \A i \in 1 .. Len(hist) : hist[i].width >= 1 /\ hist[i].height >= 1

---------------------------------------------------------------------------
(* C29: the shape circle(cx, cy, r, mode) draws has radius exactly r: for
   every r >= 0, in the border and in the fill modes, every pixel (x, y) it
   calls setPixel for has |x - cx| <= r and |y - cy| <= r, and the axis
   points (cx +- r, cy) and (cx, cy +- r) are among them, so that the largest
   |x - cx| and the largest |y - cy| are r. *)
C29_CircleRadius ==
    (call.op = "circle" /\ call.w >= 0) =>
        /\ \A p \in Plotted(hist) :
              Abs(p[1] - call.x) <= call.w /\ Abs(p[2] - call.y) <= call.w
        /\ {<<call.x + call.w, call.y>>, <<call.x - call.w, call.y>>,
            <<call.x, call.y + call.w>>, <<call.x, call.y - call.w>>} \subseteq Plotted(hist)

---------------------------------------------------------------------------
\* the setPixel() calls of Bresenham's loop alone on the endpoints of the call
BresenhamLog ==
    lineBresenham(view, Mem(prev), call.x, call.y, call.x1, call.y1, call.on).m.log

(* C30: for every pair of endpoints line() plots exactly max(|x1 - x0|,
   |y1 - y0|) + 1 points, no point twice, each two consecutive points
   differing by at most 1 in x and in y, all inside the bounding box of the
   endpoints; and the horizontal, vertical and single-point short-circuits
   plot the set of points that the loop of Bresenham's would. *)
C30_LinePoints ==
    call.op = "line" =>
        /\ Len(hist) = Max(Abs(call.x1 - call.x), Abs(call.y1 - call.y)) + 1
        /\ \A i \in 1 .. Len(hist), j \in 1 .. Len(hist) :
              (hist[i].x = hist[j].x /\ hist[i].y = hist[j].y) => i = j
        /\ \A i \in 1 .. Len(hist) - 1 :
              /\ Abs(hist[i + 1].x - hist[i].x) <= 1
              /\ Abs(hist[i + 1].y - hist[i].y) <= 1
        /\ \A i \in 1 .. Len(hist) :
              /\ hist[i].x >= Min(call.x, call.x1)
              /\ hist[i].x <= Max(call.x, call.x1)
              /\ hist[i].y >= Min(call.y, call.y1)
              /\ hist[i].y <= Max(call.y, call.y1)
              /\ hist[i].on = call.on
        /\ Plotted(hist) = Plotted(BresenhamLog)
====
